---------------------------- MODULE Spec2Model ----------------------------
(***************************************************************************)
(* A model of the compgraph dataflow engine: the row operations Map,       *)
(* Reduce and Join of compgraph/operations.py, the joiner strategies, and  *)
(* the sort stage that compgraph/graph.py attaches with Graph.sort.        *)
(*                                                                         *)
(* A row is a function from column names (strings) to integers.  A stream  *)
(* is a sequence of rows.  A generator that can raise is modelled by the   *)
(* record [rows |-> the rows it yielded, err |-> whether it then raised].  *)
(***************************************************************************)
EXTENDS Integers, Sequences, FiniteSets, TLC

VARIABLES
    \* ---- Join.__call__ (operations.py 141-173)
    join,        \* the Join object: [joiner |-> strategy name, keys |-> key columns]
    rows_a,      \* the left input stream
    rows_b,      \* the right input stream
    group_one,   \* current group of groupby_a, NoGroup when next() gave None
    group_two,   \* current group of groupby_b, NoGroup when next() gave None
    join_out,    \* rows yielded by the join so far
    join_calls,  \* history: the joiner invocations made so far
    join_pc,     \* "idle", "start", "merge", "done", or "error" (an exception escaped)
    \* ---- Reduce.__call__ (operations.py 75-87)
    reduce,        \* the Reduce object: [reducer |-> strategy, keys |-> key columns]
    reduce_rows,   \* the input stream
    reduce_group,  \* the group the groupby loop is at, NoGroup before the first
    reduce_out,    \* rows yielded so far
    reduce_calls,  \* history: the row positions passed to each reducer invocation
    reduce_pc,     \* "idle", "start", "loop", "done"
    \* ---- the sort stage of Graph.sort (graph.py 43-47; external sort, spec 4.5)
    sort_keys,      \* the key list Graph.sort was called with
    sort,           \* the sort operation Graph.sort appended: [keys |-> key columns]
    sort_run_size,  \* configured number of rows per run
    sort_rows,      \* the input stream
    sort_read,      \* number of input rows read so far
    sort_runs,      \* the sorted runs spilled so far, by run index
    sort_next,      \* per run: position of its current head row
    sort_heap,      \* priority queue: entries [key |-> head key tuple, run |-> run index]
    sort_live,      \* run indexes whose backing storage is held
    sort_out,       \* rows yielded so far
    sort_pc,        \* "idle", "runs", "merge", "done"
    \* ---- Map.__call__ (operations.py 56-62)
    map_op,     \* the Map object: [mapper |-> the mapper]
    map_rows,   \* the input stream
    map_pos,    \* number of input rows taken so far
    map_out,    \* rows yielded so far
    map_pc,     \* "idle", "run", "done"
    \* ---- TopN.__call__ (operations.py 485-499)
    topn_op,    \* the TopN object: [column_max |-> column, n |-> rows to keep]
    topn_rows,  \* the rows of the group
    topn_pos,   \* number of rows of the group processed so far
    topn_heap,  \* the min-heap: a set of entries <<value, slot index>>, indexes from 0
    topn,       \* the slot list
    topn_out,   \* rows of the returned generator
    topn_pc,    \* "idle", "loop", "done"
    \* ---- Graph.run of the pipeline graph_from_iter('input').map(mapper)
    \* ---- (graph.py 57-70, operations.py 34-40 and 56-62)
    run_graph,    \* the pipeline: [source |-> source name, mapper |-> the mapper]
    run_orig,     \* history: the rows of the source collection when the pipeline was built
    run_data,     \* the rows of the source collection as they are now
    run_no,       \* number of the current run, 0 when idle
    run_state,    \* per run: "created", "running", "done" or "abandoned"
    run_factory,  \* number of source factory invocations of the current run
    run_pos,      \* number of source rows pulled by the current run
    run_pending,  \* rows the current mapper generator has still to yield
    run_out,      \* per run: the rows the consumer has received, as received
    \* ---- the builder methods of Graph (graph.py 7-84)
    graphs,      \* the Graph objects built so far: [pipeline |-> reference to an operation]
    operations,  \* the operation objects built so far, referenced by position
    build_orig,  \* history: the source collection as it was before any run
    build_data,  \* the source collection as it is now
    build_log,   \* history: the runs made, [graph |-> reference, out |-> rows received]
    \* ---- the first next() on Graph.run(kwargs) (graph.py 57-84, operations.py 34-40)
    src_graph,    \* the Graph that is run, operations nested in it
    src_kwargs,   \* the sources supplied: source name -> the rows its factory returns
    src_invoked,  \* the source factories invoked so far, in order
    src_error,    \* the name whose lookup raised KeyError, "" when none did
    src_out,      \* rows the consumer has received
    src_pc,       \* "idle", "created", "error", "yielded", "done", "merge"
    \* ---- Map with Divide (operations.py 56-62 and 196-211)
    div_op,        \* the mapper: [nominator, denominator, result |-> column names]
    div_optimize,  \* whether assert statements are compiled out
    div_rows,      \* the row objects of the source as they are now
    div_orig,      \* history: the rows of the source before the run
    div_pos,       \* rows pulled from the source so far
    div_out,       \* rows the consumer has received
    div_error,     \* the exception that ended the run, "" when none did
    div_pc         \* "idle", "run", "done", "error"

joinVars == <<join, rows_a, rows_b, group_one, group_two, join_out, join_calls, join_pc>>

reduceVars == <<reduce, reduce_rows, reduce_group, reduce_out, reduce_calls, reduce_pc>>

sortVars == <<sort_keys, sort, sort_run_size, sort_rows, sort_read, sort_runs, sort_next, sort_heap,
              sort_live, sort_out, sort_pc>>

mapVars == <<map_op, map_rows, map_pos, map_out, map_pc>>

topnVars == <<topn_op, topn_rows, topn_pos, topn_heap, topn, topn_out, topn_pc>>

runVars == <<run_graph, run_orig, run_data, run_no, run_state, run_factory, run_pos,
             run_pending, run_out>>

buildVars == <<graphs, operations, build_orig, build_data, build_log>>

srcVars == <<src_graph, src_kwargs, src_invoked, src_error, src_out, src_pc>>

divVars == <<div_op, div_optimize, div_rows, div_orig, div_pos, div_out, div_error, div_pc>>

vars == <<joinVars, reduceVars, sortVars, mapVars, topnVars, runVars, buildVars, srcVars,
          divVars>>

\* What the steps of one operation leave alone: the other operations.
notJoin == <<reduceVars, sortVars, mapVars, topnVars, runVars, buildVars, srcVars, divVars>>

notReduce == <<joinVars, sortVars, mapVars, topnVars, runVars, buildVars, srcVars, divVars>>

notSort == <<joinVars, reduceVars, mapVars, topnVars, runVars, buildVars, srcVars, divVars>>

notMap == <<joinVars, reduceVars, sortVars, topnVars, runVars, buildVars, srcVars, divVars>>

notTopN == <<joinVars, reduceVars, sortVars, mapVars, runVars, buildVars, srcVars, divVars>>

notRun == <<joinVars, reduceVars, sortVars, mapVars, topnVars, buildVars, srcVars, divVars>>

notBuild == <<joinVars, reduceVars, sortVars, mapVars, topnVars, runVars, srcVars, divVars>>

notSrc == <<joinVars, reduceVars, sortVars, mapVars, topnVars, runVars, buildVars, divVars>>

notDiv == <<joinVars, reduceVars, sortVars, mapVars, topnVars, runVars, buildVars, srcVars>>

---------------------------------------------------------------------------
(* Bounds of the model *)

MaxLen == 3        \* longest input stream of a join
MaxJoinRows == 4   \* most rows of both input streams of a join together
MaxKey == 2        \* key values are 1..MaxKey
MaxReduceLen == 4  \* longest input stream of a reduce
MaxSortLen == 3    \* longest input stream of a sort
MaxRunSize == 3    \* run sizes are 1..MaxRunSize rows
MaxMapLen == 3     \* longest input stream of a map
MaxText == 2       \* longest text (in characters) of a map input row
MaxTopLen == 4     \* longest group given to TopN
MaxVal == 3        \* values of the TopN column are 1..MaxVal
MaxN == 3          \* TopN keeps 1..MaxN rows
MaxRunLen == 2     \* longest source collection of a pipeline run
NumRuns == 2       \* a built pipeline is run up to NumRuns times
MaxGraphs == 3     \* Graph objects built, the source graph included
MaxBuildRuns == 3  \* runs made while pipelines are built
MaxDivLen == 3     \* longest source of a Map with Divide

---------------------------------------------------------------------------
(* Generic helpers *)

Range(s) == { s[i] : i \in DOMAIN s }

SubSeqFrom(s, lo, hi) == [ i \in 1..(hi - lo + 1) |-> s[lo + i - 1] ]

\* A generator's outcome: the rows yielded, and whether an exception followed.
Yielded(rs) == [rows |-> rs, err |-> FALSE]

Raised(rs) == [rows |-> rs, err |-> TRUE]

\* "yield from g1" followed by "yield from g2": g2 runs only if g1 did not raise.
Then(g1, g2) == IF g1.err THEN g1 ELSE [rows |-> g1.rows \o g2.rows, err |-> g2.err]

---------------------------------------------------------------------------
(* Key tuples *)

\* tuple(row[col] for col in keys)
KeyOf(row, keys) == [ i \in 1..Len(keys) |-> row[keys[i]] ]

RECURSIVE TupleLess(_, _)
\* Python's s < t on tuples: lexicographic, a proper prefix is smaller.
TupleLess(s, t) ==
    IF t = <<>> THEN FALSE
    ELSE IF s = <<>> THEN TRUE
    ELSE IF Head(s) < Head(t) THEN TRUE
    ELSE IF Head(t) < Head(s) THEN FALSE
    ELSE TupleLess(Tail(s), Tail(t))

\* The absent group: next(groupby, None) returned None.
NoGroup == [key |-> <<>>, lo |-> 0, hi |-> 0]

\* Mutant of GroupEnd: the group ends at the last row of the stream that has
\* the key tuple of rows[i], wherever it is (grouping by key, not by run).
GroupEnd_byKey(rows, keys, i) ==
    CHOOSE j \in i..Len(rows) :
        /\ KeyOf(rows[j], keys) = KeyOf(rows[i], keys)
        /\ \A l \in (j + 1)..Len(rows) : KeyOf(rows[l], keys) # KeyOf(rows[i], keys)

RECURSIVE GroupEnd(_, _, _)
\* Last index of the run of consecutive rows that starts at index i and shares
\* the key tuple of rows[i] (itertools.groupby groups consecutive equal keys).
GroupEnd(rows, keys, i) ==
    IF i < Len(rows) /\ KeyOf(rows[i + 1], keys) = KeyOf(rows[i], keys)
    THEN GroupEnd(rows, keys, i + 1)
    ELSE i

\* next(groupby(rows, key), None) when the previous group ended at index prev.
NextGroup(rows, keys, prev) ==
    IF prev + 1 > Len(rows) THEN NoGroup
    ELSE [key |-> KeyOf(rows[prev + 1], keys),
          lo  |-> prev + 1,
          hi  |-> GroupEnd(rows, keys, prev + 1)]

\* The rows a group's iterator yields.
GroupRows(rows, g) == IF g.lo = 0 THEN <<>> ELSE SubSeqFrom(rows, g.lo, g.hi)

---------------------------------------------------------------------------
(* Joiner base class *)

a_suffix == "_1"

b_suffix == "_2"

\* Joiner.separate_columns; Python parses  set_b - set_a & set_b  as
\* (set_b - set_a) & set_b  and  set_a & set_b - set_keys  as
\* set_a & (set_b - set_keys).
separate_columns(row_a, row_b, keys) ==
    LET set_a == DOMAIN row_a
        set_b == DOMAIN row_b
        set_keys == Range(keys)
        col_from_right == (set_b \ set_a) \cap set_b
        common_col == set_a \cap (set_b \ set_keys)
        col_from_left == set_a \ common_col
    IN  [col_from_left |-> col_from_left,
         col_from_right |-> col_from_right,
         common_col |-> common_col]

\* The dict new_row that one iteration of join_row_list builds; later
\* assignments overwrite earlier ones.
new_row(row_a, row_b, columns) ==
    LET from_a == { c \o a_suffix : c \in columns.common_col }
        from_b == { c \o b_suffix : c \in columns.common_col }
        Unsuffixed(n, suffix) == CHOOSE c \in columns.common_col : c \o suffix = n
    IN  [ n \in columns.col_from_left \cup columns.col_from_right \cup from_a \cup from_b |->
            IF n \in from_b THEN row_b[Unsuffixed(n, b_suffix)]
            ELSE IF n \in from_a THEN row_a[Unsuffixed(n, a_suffix)]
            ELSE IF n \in columns.col_from_right THEN row_b[n]
            ELSE row_a[n] ]

\* Whether building new_row raises KeyError: a column taken from a row that
\* does not have it.
new_row_raises(row_a, row_b, columns) ==
    \/ ~(columns.col_from_left \subseteq DOMAIN row_a)
    \/ ~(columns.col_from_right \subseteq DOMAIN row_b)
    \/ ~(columns.common_col \subseteq (DOMAIN row_a \cap DOMAIN row_b))

RECURSIVE join_row_list(_, _, _)
\* Joiner.join_row_list: one new row per row of lst_b, in order.
join_row_list(row_a, lst_b, columns) ==
    IF lst_b = <<>> THEN Yielded(<<>>)
    ELSE IF new_row_raises(row_a, Head(lst_b), columns) THEN Raised(<<>>)
    ELSE Then(Yielded(<<new_row(row_a, Head(lst_b), columns)>>),
              join_row_list(row_a, Tail(lst_b), columns))

RECURSIVE join_rows(_, _, _)
\* The two loops of join_both over the first row and the remaining rows of the
\* iterated side, with the columns fixed beforehand.
join_rows(rows, list_b, columns) ==
    IF rows = <<>> THEN Yielded(<<>>)
    ELSE Then(join_row_list(Head(rows), list_b, columns),
              join_rows(Tail(rows), list_b, columns))

\* Joiner.join_both: the columns are separated once, from the first row of the
\* iterated side and list_b[0]; list_b[0] raises IndexError on an empty list.
join_both(keys, row, rest, list_b) ==
    IF list_b = <<>> THEN Raised(<<>>)
    ELSE join_rows(<<row>> \o rest, list_b, separate_columns(row, list_b[1], keys))

---------------------------------------------------------------------------
(* Joiner strategies.  Each takes the two group iterators that Join passes *)
(* (single-use: rows already yielded are gone) as sequences.               *)

\* InnerJoiner.__call__
InnerJoiner(keys, it_a, it_b) ==
    LET list_b == it_b
    IN  IF list_b = <<>> THEN Yielded(<<>>)
        ELSE IF it_a = <<>> THEN Yielded(<<>>)
        ELSE join_both(keys, Head(it_a), Tail(it_a), list_b)

\* OuterJoiner.__call__
OuterJoiner(keys, it_a, it_b) ==
    LET list_b == it_b
    IN  IF list_b = <<>> THEN Yielded(it_a)
        ELSE IF it_a = <<>> THEN Yielded(list_b)
        ELSE join_both(keys, Head(it_a), Tail(it_a), list_b)

\* LeftJoiner.__call__
LeftJoiner(keys, it_a, it_b) ==
    LET list_b == it_b
    IN  IF list_b = <<>> THEN Yielded(it_a)
        ELSE IF it_a = <<>> THEN Yielded(<<>>)
        ELSE join_both(keys, Head(it_a), Tail(it_a), list_b)

\* RightJoiner.__call__: after "yield from rows_b" there is no return; the
\* iterator rows_b is then exhausted, so next(iter(rows_b), None) is None.
\* join_both is called with the right row as row and list_a as list_b.
RightJoiner(keys, it_a, it_b) ==
    LET list_a == it_a
        passed == IF list_a = <<>> THEN it_b ELSE <<>>
        left_b == IF list_a = <<>> THEN <<>> ELSE it_b
    IN  IF left_b = <<>> THEN Yielded(passed)
        ELSE Then(Yielded(passed),
                  join_both(keys, Head(left_b), Tail(left_b), list_a))

Joiners == {"Inner", "Left", "Right", "Outer"}

\* self.joiner(self.keys, rows_a, rows_b)
call_joiner(name, keys, it_a, it_b) ==
    CASE name = "Inner" -> InnerJoiner(keys, it_a, it_b)
      [] name = "Left"  -> LeftJoiner(keys, it_a, it_b)
      [] name = "Right" -> RightJoiner(keys, it_a, it_b)
      [] name = "Outer" -> OuterJoiner(keys, it_a, it_b)

---------------------------------------------------------------------------
(* Join.__call__ *)

\* One "yield from self.joiner(self.keys, ga, gb)" of the merge loop: the rows
\* are appended to the output, an exception ends the run.
JoinerStep(ga, gb) ==
    LET g == call_joiner(join.joiner, join.keys,
                         GroupRows(rows_a, ga), GroupRows(rows_b, gb))
    IN  /\ join_out' = join_out \o g.rows
        /\ join_calls' = Append(join_calls, [a |-> ga, b |-> gb])
        /\ join_pc' = IF g.err THEN "error" ELSE "merge"

\* Lines 147-153: both groupby objects are created and their first groups read.
JoinStart ==
    /\ join_pc = "start"
    /\ group_one' = NextGroup(rows_a, join.keys, 0)
    /\ group_two' = NextGroup(rows_b, join.keys, 0)
    /\ join_pc' = "merge"
    /\ UNCHANGED <<join, rows_a, rows_b, join_out, join_calls>>
    /\ UNCHANGED notJoin

\* A merge that, where the left key is smaller, passes the right group and
\* advances the right side.
JoinLeftLess_rightFirst ==
    /\ join_pc = "merge"
    /\ group_one # NoGroup /\ group_two # NoGroup
    /\ TupleLess(group_one.key, group_two.key)
    /\ JoinerStep(NoGroup, group_two)
    /\ group_two' = NextGroup(rows_b, join.keys, group_two.hi)
    /\ UNCHANGED <<join, rows_a, rows_b, group_one>>
    /\ UNCHANGED notJoin

\* Lines 155-158: the left key is smaller.
JoinLeftLess ==
    /\ join_pc = "merge"
    /\ group_one # NoGroup /\ group_two # NoGroup
    /\ TupleLess(group_one.key, group_two.key)
    /\ JoinerStep(group_one, NoGroup)
    /\ group_one' = NextGroup(rows_a, join.keys, group_one.hi)
    /\ UNCHANGED <<join, rows_a, rows_b, group_two>>
    /\ UNCHANGED notJoin

\* Lines 159-161: the right key is smaller.
JoinRightLess ==
    /\ join_pc = "merge"
    /\ group_one # NoGroup /\ group_two # NoGroup
    /\ ~TupleLess(group_one.key, group_two.key)
    /\ TupleLess(group_two.key, group_one.key)
    /\ JoinerStep(NoGroup, group_two)
    /\ group_two' = NextGroup(rows_b, join.keys, group_two.hi)
    /\ UNCHANGED <<join, rows_a, rows_b, group_one>>
    /\ UNCHANGED notJoin

\* Lines 162-165: neither key is smaller.
JoinEqual ==
    /\ join_pc = "merge"
    /\ group_one # NoGroup /\ group_two # NoGroup
    /\ ~TupleLess(group_one.key, group_two.key)
    /\ ~TupleLess(group_two.key, group_one.key)
    /\ JoinerStep(group_one, group_two)
    /\ group_one' = NextGroup(rows_a, join.keys, group_one.hi)
    /\ group_two' = NextGroup(rows_b, join.keys, group_two.hi)
    /\ UNCHANGED <<join, rows_a, rows_b>>
    /\ UNCHANGED notJoin

\* Lines 167-169: the right side is exhausted.
JoinDrainLeft ==
    /\ join_pc = "merge"
    /\ group_one # NoGroup /\ group_two = NoGroup
    /\ JoinerStep(group_one, NoGroup)
    /\ group_one' = NextGroup(rows_a, join.keys, group_one.hi)
    /\ UNCHANGED <<join, rows_a, rows_b, group_two>>
    /\ UNCHANGED notJoin

\* Lines 171-173: the left side is exhausted.
JoinDrainRight ==
    /\ join_pc = "merge"
    /\ group_one = NoGroup /\ group_two # NoGroup
    /\ JoinerStep(NoGroup, group_two)
    /\ group_two' = NextGroup(rows_b, join.keys, group_two.hi)
    /\ UNCHANGED <<join, rows_a, rows_b, group_one>>
    /\ UNCHANGED notJoin

\* The generator returns: all three loops have ended.
JoinReturn ==
    /\ join_pc = "merge"
    /\ group_one = NoGroup /\ group_two = NoGroup
    /\ join_pc' = "done"
    /\ UNCHANGED <<join, rows_a, rows_b, group_one, group_two, join_out, join_calls>>
    /\ UNCHANGED notJoin

\* Input rows of a join.  The left row at position i carries its position in
\* the column "a", the right row at position j carries 10 + j in the column
\* "b"; either may also have the shared non-key column "v".
LeftRow(i, kv, has_v) ==
    IF has_v THEN [k |-> kv, a |-> i, v |-> i] ELSE [k |-> kv, a |-> i]

RightRow(j, kv, has_v) ==
    IF has_v THEN [k |-> kv, b |-> 10 + j, v |-> 10 + j] ELSE [k |-> kv, b |-> 10 + j]

\* Streams sorted ascending by the key column (the precondition of Join).
SortedKeySeqs(n) ==
    { ks \in [1..n -> 1..MaxKey] : \A i \in 1..n, j \in 1..n : i < j => ks[i] <= ks[j] }

LeftInputs ==
    UNION { { [ i \in 1..n |-> LeftRow(i, ks[i], hv[i]) ] :
                ks \in SortedKeySeqs(n), hv \in [1..n -> BOOLEAN] } : n \in 0..MaxLen }

RightInputs ==
    UNION { { [ j \in 1..n |-> RightRow(j, ks[j], hv[j]) ] :
                ks \in SortedKeySeqs(n), hv \in [1..n -> BOOLEAN] } : n \in 0..MaxLen }

\* Join(joiner, ['k']) or Join(joiner, []) on two streams of at most
\* MaxJoinRows rows together.
JoinInit ==
    /\ join \in [joiner : Joiners, keys : {<<"k">>, <<>>}]
    /\ rows_a \in LeftInputs
    /\ rows_b \in RightInputs
    /\ Len(rows_a) + Len(rows_b) <= MaxJoinRows
    /\ group_one = NoGroup
    /\ group_two = NoGroup
    /\ join_out = <<>>
    /\ join_calls = <<>>
    /\ join_pc = "start"

\* No join is running.
JoinIdle ==
    /\ join = [joiner |-> "Inner", keys |-> <<>>]
    /\ rows_a = <<>>
    /\ rows_b = <<>>
    /\ group_one = NoGroup
    /\ group_two = NoGroup
    /\ join_out = <<>>
    /\ join_calls = <<>>
    /\ join_pc = "idle"

JoinNext ==
    \/ JoinStart
    \/ JoinLeftLess
    \/ JoinRightLess
    \/ JoinEqual
    \/ JoinDrainLeft
    \/ JoinDrainRight
    \/ JoinReturn

---------------------------------------------------------------------------
(* Reducers *)

\* {col: row[col] for col in group_key}
key_columns(row, group_key) == [ c \in Range(group_key) |-> row[c] ]

\* new_row[column] = value
with_column(row, column, value) ==
    [ c \in DOMAIN row \cup {column} |-> IF c = column THEN value ELSE row[c] ]

\* The new_row the loops of Count and Sum leave behind: the key columns of the
\* first row, or the empty dict when there was no row.
first_key_columns(group_key, rows) ==
    IF rows = <<>> THEN <<>> ELSE key_columns(rows[1], group_key)

\* FirstReducer.__call__: the first row only.
FirstReducer(group_key, rows) ==
    IF rows = <<>> THEN Yielded(<<>>) ELSE Yielded(<<rows[1]>>)

\* Count.__call__
Count(column, group_key, rows) ==
    LET count == Len(rows)
    IN  Yielded(<<with_column(first_key_columns(group_key, rows), column, count)>>)

RECURSIVE column_sum(_, _)
\* s += row[column] over the rows
column_sum(column, rows) ==
    IF rows = <<>> THEN 0 ELSE rows[1][column] + column_sum(column, Tail(rows))

\* Sum adding up nothing beyond the first row of the group.
Sum_firstRow(column, group_key, rows) ==
    Yielded(<<with_column(first_key_columns(group_key, rows), column,
                          IF rows = <<>> THEN 0 ELSE rows[1][column])>>)

\* Sum.__call__
Sum(column, group_key, rows) ==
    Yielded(<<with_column(first_key_columns(group_key, rows), column,
                          column_sum(column, rows))>>)

\* CountUnique counting every row instead of every distinct value.
CountUnique_everyRow(column, result_column, group_key, rows) ==
    Yielded(<<with_column(first_key_columns(group_key, rows), result_column, Len(rows))>>)

\* CountUnique.__call__: values_set collects row[column]; new_row (key_row) takes the key
\* columns of the first row when group_key is not empty.
CountUnique(column, result_column, group_key, rows) ==
    LET values_set == { rows[i][column] : i \in DOMAIN rows }
        key_row == IF group_key # <<>> THEN first_key_columns(group_key, rows) ELSE <<>>
    IN  Yielded(<<with_column(key_row, result_column, Cardinality(values_set))>>)

RECURSIVE gcd(_, _)
\* The greatest common divisor of two naturals.
gcd(x, y) == IF y = 0 THEN x ELSE gcd(y, x % y)

\* x / y of two ints, y not 0: a float, which for ints of this size is
\* one value per rational; it is held as the fraction in lowest terms.
true_div(x, y) == [num |-> x \div gcd(x, y), den |-> y \div gcd(x, y)]

RECURSIVE counter_keys(_, _)
\* The keys of the dict counter in insertion order: the values of the
\* column in the order in which they first occur.
counter_keys(column, rows) ==
    IF rows = <<>> THEN <<>>
    ELSE LET before == counter_keys(column, SubSeq(rows, 1, Len(rows) - 1))
             value == rows[Len(rows)][column]
         IN  IF value \in Range(before) THEN before ELSE Append(before, value)

\* counter[key] after the loop: the rows holding the value.
counter_val(column, rows, key) == Cardinality({ i \in DOMAIN rows : rows[i][column] = key })

\* TermFrequency dividing by the number of distinct values.
TermFrequency_perDistinct(words_column, result_column, group_key, rows) ==
    LET keys == counter_keys(words_column, rows)
    IN  Yielded([ k \in 1..Len(keys) |->
            with_column(with_column(first_key_columns(group_key, rows), words_column, keys[k]),
                        result_column,
                        true_div(counter_val(words_column, rows, keys[k]), Len(keys))) ])

\* TermFrequency.__call__: new_row takes the key columns of the first row;
\* one row per key of counter, tf = val / n_words.
TermFrequency(words_column, result_column, group_key, rows) ==
    LET n_words == Len(rows)
        keys == counter_keys(words_column, rows)
    IN  Yielded([ k \in 1..Len(keys) |->
            with_column(with_column(first_key_columns(group_key, rows), words_column, keys[k]),
                        result_column,
                        true_div(counter_val(words_column, rows, keys[k]), n_words)) ])

\* The reducers a Reduce is built with here: FirstReducer(), Count('n'), Sum('b'),
\* CountUnique('a', 'n'), TermFrequency('w', 'tf'), TermFrequency('a', 'tf').
Reducers ==
    { [kind |-> "First", column |-> ""],
      [kind |-> "Count", column |-> "n"],
      [kind |-> "Sum", column |-> "b"],
      [kind |-> "CountUnique", column |-> "a", result_column |-> "n"],
      [kind |-> "TermFrequency", column |-> "w", result_column |-> "tf"],
      [kind |-> "TermFrequency", column |-> "a", result_column |-> "tf"] }

\* self.reducer(group_key, rows)
call_reducer(reducer, group_key, rows) ==
    CASE reducer.kind = "First" -> FirstReducer(group_key, rows)
      [] reducer.kind = "Count" -> Count(reducer.column, group_key, rows)
      [] reducer.kind = "Sum"   -> Sum(reducer.column, group_key, rows)
      [] reducer.kind = "CountUnique" ->
             CountUnique(reducer.column, reducer.result_column, group_key, rows)
      [] reducer.kind = "TermFrequency" ->
             TermFrequency(reducer.column, reducer.result_column, group_key, rows)

---------------------------------------------------------------------------
(* Reduce.__call__ *)

\* Lines 81-83: with no key column the reducer gets the whole input, once.
ReduceAll ==
    /\ reduce_pc = "start"
    /\ reduce.keys = <<>>
    /\ reduce_out' = reduce_out \o call_reducer(reduce.reducer, <<>>, reduce_rows).rows
    /\ reduce_calls' = Append(reduce_calls, DOMAIN reduce_rows)
    /\ reduce_pc' = "done"
    /\ UNCHANGED <<reduce, reduce_rows, reduce_group>>
    /\ UNCHANGED notReduce

\* Lines 85-87, one iteration: groupby gives the next group, the reducer is
\* called with tuple(self.keys) and the group's rows.
ReduceGroup ==
    /\ reduce_pc \in {"start", "loop"}
    /\ reduce.keys # <<>>
    /\ LET g == NextGroup(reduce_rows, reduce.keys, reduce_group.hi)
       IN  /\ g # NoGroup
           /\ reduce_group' = g
           /\ reduce_out' = reduce_out \o
                  call_reducer(reduce.reducer, reduce.keys, GroupRows(reduce_rows, g)).rows
           /\ reduce_calls' = Append(reduce_calls, g.lo..g.hi)
    /\ reduce_pc' = "loop"
    /\ UNCHANGED <<reduce, reduce_rows>>
    /\ UNCHANGED notReduce

\* Lines 85-87: groupby is exhausted, the generator returns.
ReduceReturn ==
    /\ reduce_pc \in {"start", "loop"}
    /\ reduce.keys # <<>>
    /\ NextGroup(reduce_rows, reduce.keys, reduce_group.hi) = NoGroup
    /\ reduce_pc' = "done"
    /\ UNCHANGED <<reduce, reduce_rows, reduce_group, reduce_out, reduce_calls>>
    /\ UNCHANGED notReduce

\* Input rows of a reduce: the key column "a" and the column "b", which
\* holds the row's position in the input.  The stream need not be sorted.
ReduceInputs ==
    UNION { { [ i \in 1..n |-> [a |-> ks[i], b |-> i] ] : ks \in [1..n -> 1..MaxKey] } :
            n \in 0..MaxReduceLen }

\* The values of the words column.
Words == {"x", "y"}

\* Input rows of a reduce with TermFrequency: as above, and the column "w"
\* with a word.
WordInputs(n) ==
    { [ i \in 1..n |-> [a |-> ks[i], b |-> i, w |-> ws[i]] ] :
          ks \in [1..n -> 1..MaxKey], ws \in [1..n -> Words] }

ReduceInit ==
    /\ reduce \in [reducer : Reducers, keys : {<<"a">>, <<>>}]
    /\ IF reduce.reducer.kind = "TermFrequency"
       THEN \E n \in 0..MaxReduceLen : reduce_rows \in WordInputs(n)
       ELSE reduce_rows \in ReduceInputs
    /\ reduce_group = NoGroup
    /\ reduce_out = <<>>
    /\ reduce_calls = <<>>
    /\ reduce_pc = "start"

\* No reduce is running.
ReduceIdle ==
    /\ reduce = [reducer |-> [kind |-> "First", column |-> ""], keys |-> <<>>]
    /\ reduce_rows = <<>>
    /\ reduce_group = NoGroup
    /\ reduce_out = <<>>
    /\ reduce_calls = <<>>
    /\ reduce_pc = "idle"

ReduceNext ==
    \/ ReduceAll
    \/ ReduceGroup
    \/ ReduceReturn

---------------------------------------------------------------------------
(* External sort.  Its source file is not part of the sources at hand; the *)
(* steps are those of the design's section 4.5: partition the input into   *)
(* runs of the configured size, sort each run in memory by the key tuple,  *)
(* spill it, merge the runs through a priority queue keyed by (head key    *)
(* tuple, run index), release a run's storage once the merge has consumed  *)
(* it.                                                                     *)

\* ExternalSort(keys): the operation object.
ExternalSort(keys) == [keys |-> keys]

\* Mutant of Graph_sort: the key list is not handed to the sort.
Graph_sort_noKeys(keys) == ExternalSort(<<>>)

\* Graph.sort: the operation it appends to the pipeline.
Graph_sort(keys) == ExternalSort(keys)

RECURSIVE insert_sorted(_, _, _)
\* Insert row into the sorted run behind every row whose key tuple is not
\* greater (stable in-memory sort, step 2).
insert_sorted(row, run, keys) ==
    IF run = <<>> THEN <<row>>
    ELSE IF TupleLess(KeyOf(row, keys), KeyOf(Head(run), keys))
         THEN <<row>> \o run
         ELSE <<Head(run)>> \o insert_sorted(row, Tail(run), keys)

RECURSIVE sort_run(_, _)
\* The rows of one run sorted by key tuple, equal keys in input order.
sort_run(rows, keys) ==
    IF rows = <<>> THEN <<>>
    ELSE insert_sorted(rows[Len(rows)], sort_run(SubSeq(rows, 1, Len(rows) - 1), keys), keys)

\* Mutant of entry_less: ties between equal head keys go to the later run.
entry_less_laterRun(e, f) ==
    \/ TupleLess(e.key, f.key)
    \/ e.key = f.key /\ e.run > f.run

\* Order of the priority queue: by head key tuple, then by run index (step 4).
entry_less(e, f) ==
    \/ TupleLess(e.key, f.key)
    \/ e.key = f.key /\ e.run < f.run

\* The entry a pop of the priority queue returns.
heap_min(heap) == CHOOSE e \in heap : \A f \in heap \ {e} : entry_less(e, f)

\* Steps 1-3: the next run_size rows (or what is left) are read, sorted and
\* spilled as one more run.
SortSpillRun ==
    /\ sort_pc = "runs"
    /\ sort_read < Len(sort_rows)
    /\ LET last == IF sort_read + sort_run_size <= Len(sort_rows)
                   THEN sort_read + sort_run_size ELSE Len(sort_rows)
           chunk == SubSeq(sort_rows, sort_read + 1, last)
       IN  /\ sort_runs' = Append(sort_runs, sort_run(chunk, sort.keys))
           /\ sort_live' = sort_live \cup {Len(sort_runs) + 1}
           /\ sort_read' = last
    /\ UNCHANGED <<sort_keys, sort, sort_run_size, sort_rows, sort_next, sort_heap, sort_out, sort_pc>>
    /\ UNCHANGED notSort

\* Step 4, start: the input is exhausted; the head of every run enters the
\* priority queue.
SortStartMerge ==
    /\ sort_pc = "runs"
    /\ sort_read = Len(sort_rows)
    /\ sort_next' = [ r \in DOMAIN sort_runs |-> 1 ]
    /\ sort_heap' = { [key |-> KeyOf(sort_runs[r][1], sort.keys), run |-> r] : r \in DOMAIN sort_runs }
    /\ sort_pc' = "merge"
    /\ UNCHANGED <<sort_keys, sort, sort_run_size, sort_rows, sort_read, sort_runs, sort_live, sort_out>>
    /\ UNCHANGED notSort

\* Mutant of held_after_pop: a consumed run keeps its storage.
held_after_pop_keep(live, run, at, len) == live

\* Step 5: the run storage held once the merge has taken row at of a run of
\* len rows; the run's storage is released with its last row.
held_after_pop(live, run, at, len) == IF at < len THEN live ELSE live \ {run}

\* Steps 4-5, one output row: the least entry is popped, its run's head row is
\* yielded, and the run's next head enters the queue; a run with no next row
\* is released.
SortMergeStep ==
    /\ sort_pc = "merge"
    /\ sort_heap # {}
    /\ LET e == heap_min(sort_heap)
           run == sort_runs[e.run]
           at == sort_next[e.run]
       IN  /\ sort_out' = Append(sort_out, run[at])
           /\ sort_next' = [sort_next EXCEPT ![e.run] = at + 1]
           /\ sort_heap' = IF at < Len(run)
                           THEN (sort_heap \ {e}) \cup
                                    {[key |-> KeyOf(run[at + 1], sort.keys), run |-> e.run]}
                           ELSE sort_heap \ {e}
           /\ sort_live' = held_after_pop(sort_live, e.run, at, Len(run))
    /\ UNCHANGED <<sort_keys, sort, sort_run_size, sort_rows, sort_read, sort_runs, sort_pc>>
    /\ UNCHANGED notSort

\* The priority queue is empty: the output sequence ends.
SortReturn ==
    /\ sort_pc = "merge"
    /\ sort_heap = {}
    /\ sort_pc' = "done"
    /\ UNCHANGED <<sort_keys, sort, sort_run_size, sort_rows, sort_read, sort_runs, sort_next,
                   sort_heap, sort_live, sort_out>>
    /\ UNCHANGED notSort

\* An error leaves the sort while a run is being read and sorted or while the
\* runs are merged (the input raises, a comparison or the storage fails):
\* the storage of every run is released on the way out, and the output
\* sequence ends with the error.
SortError ==
    /\ \/ sort_pc = "runs" /\ sort_read < Len(sort_rows)
       \/ sort_pc = "merge" /\ sort_heap # {}
    /\ sort_live' = {}
    /\ sort_pc' = "error"
    /\ UNCHANGED <<sort_keys, sort, sort_run_size, sort_rows, sort_read, sort_runs, sort_next,
                   sort_heap, sort_out>>
    /\ UNCHANGED notSort

\* The consumer has taken some rows and drops the output sequence: the merge
\* is not resumed, and the storage of the runs in flight is released.
SortAbandon ==
    /\ sort_pc = "merge"
    /\ sort_out # <<>>
    /\ sort_live' = {}
    /\ sort_pc' = "abandoned"
    /\ UNCHANGED <<sort_keys, sort, sort_run_size, sort_rows, sort_read, sort_runs, sort_next,
                   sort_heap, sort_out>>
    /\ UNCHANGED notSort

SecondKeyVals == {1, 2}

\* Input rows of a sort: key columns "a" and "c", and the column "b", which
\* holds the row's position in the input.
SortInputs ==
    UNION { { [ i \in 1..n |-> [a |-> ks[i], c |-> cs[i], b |-> i] ] :
                ks \in [1..n -> 1..MaxKey], cs \in [1..n -> SecondKeyVals] } :
            n \in 0..MaxSortLen }

SortInit ==
    /\ sort_keys \in {<<"a">>, <<"a", "c">>}
    /\ sort = Graph_sort(sort_keys)
    /\ sort_run_size \in 1..MaxRunSize
    /\ sort_rows \in SortInputs
    /\ sort_read = 0
    /\ sort_runs = <<>>
    /\ sort_next = <<>>
    /\ sort_heap = {}
    /\ sort_live = {}
    /\ sort_out = <<>>
    /\ sort_pc = "runs"

\* No sort is running.
SortIdle ==
    /\ sort_keys = <<>>
    /\ sort = ExternalSort(<<>>)
    /\ sort_run_size = 1
    /\ sort_rows = <<>>
    /\ sort_read = 0
    /\ sort_runs = <<>>
    /\ sort_next = <<>>
    /\ sort_heap = {}
    /\ sort_live = {}
    /\ sort_out = <<>>
    /\ sort_pc = "idle"

SortNext ==
    \/ SortSpillRun
    \/ SortStartMerge
    \/ SortMergeStep
    \/ SortReturn
    \/ SortError
    \/ SortAbandon

---------------------------------------------------------------------------
(* Mappers.  A text is a sequence of one-character strings. *)

\* DummyMapper.__call__
DummyMapper(row) == Yielded(<<row>>)

\* Filter.__call__ with the condition  len(row['text']) > 1
Filter(row) == IF Len(row.text) > 1 THEN Yielded(<<row>>) ELSE Yielded(<<>>)

\* Project.__call__
Project(columns, row) == Yielded(<<[ c \in Range(columns) |-> row[c] ]>>)

\* A character the pattern \s matches.
is_space(ch) == ch = " "

RECURSIVE split_pieces(_)
\* The pieces s[start:match.start()] for the successive matches of \s+ in s,
\* a text that ends with a space.
split_pieces(s) ==
    LET first == CHOOSE i \in 1..Len(s) :
                     is_space(s[i]) /\ \A j \in 1..(i - 1) : ~is_space(s[j])
        after == { i \in (first + 1)..Len(s) : ~is_space(s[i]) }
    IN  IF after = {} THEN <<SubSeq(s, 1, first - 1)>>
        ELSE LET next == CHOOSE i \in after : \A j \in after : i <= j
             IN  <<SubSeq(s, 1, first - 1)>> \o split_pieces(SubSeq(s, next, Len(s)))

\* Split.__call__ with the default separator: one copy of the row per piece.
Split(column, row) ==
    LET pieces == split_pieces(row[column] \o <<" ">>)
    IN  Yielded([ i \in 1..Len(pieces) |-> [row EXCEPT ![column] = pieces[i]] ])

\* The mappers a Map is built with here.
Mappers ==
    { [kind |-> "Dummy", column |-> "", columns |-> <<>>],
      [kind |-> "Filter", column |-> "", columns |-> <<>>],
      [kind |-> "Project", column |-> "", columns |-> <<"id">>],
      [kind |-> "Split", column |-> "text", columns |-> <<>>] }

\* self.mapper(row)
call_mapper(mapper, row) ==
    CASE mapper.kind = "Dummy"   -> DummyMapper(row)
      [] mapper.kind = "Filter"  -> Filter(row)
      [] mapper.kind = "Project" -> Project(mapper.columns, row)
      [] mapper.kind = "Split"   -> Split(mapper.column, row)

---------------------------------------------------------------------------
(* Map.__call__ *)

\* Mutant of yield_from: only the first row the mapper emits is passed on.
yield_from_firstOnly(out, emitted) ==
    IF emitted = <<>> THEN out ELSE Append(out, emitted[1])

\* "yield from self.mapper(row)": every emitted row goes to the output, in order.
yield_from(out, emitted) == out \o emitted

\* Lines 61-62, one iteration of the loop.
MapRow ==
    /\ map_pc = "run"
    /\ map_pos < Len(map_rows)
    /\ map_out' = yield_from(map_out, call_mapper(map_op.mapper, map_rows[map_pos + 1]).rows)
    /\ map_pos' = map_pos + 1
    /\ UNCHANGED <<map_op, map_rows, map_pc>>
    /\ UNCHANGED notMap

\* Line 61: the input is exhausted, the generator returns.
MapReturn ==
    /\ map_pc = "run"
    /\ map_pos = Len(map_rows)
    /\ map_pc' = "done"
    /\ UNCHANGED <<map_op, map_rows, map_pos, map_out>>
    /\ UNCHANGED notMap

Chars == {"w", " "}

Texts == UNION { [1..n -> Chars] : n \in 0..MaxText }

\* Input rows of a map: the column "id" holds the row's position.
MapInputs(n) ==
    { [ i \in 1..n |-> [id |-> i, text |-> ts[i]] ] : ts \in [1..n -> Texts] }

MapInit ==
    /\ map_op \in [mapper : Mappers]
    /\ \E n \in 0..MaxMapLen : map_rows \in MapInputs(n)
    /\ map_pos = 0
    /\ map_out = <<>>
    /\ map_pc = "run"

\* No map is running.
MapIdle ==
    /\ map_op = [mapper |-> [kind |-> "Dummy", column |-> "", columns |-> <<>>]]
    /\ map_rows = <<>>
    /\ map_pos = 0
    /\ map_out = <<>>
    /\ map_pc = "idle"

MapNext ==
    \/ MapRow
    \/ MapReturn

---------------------------------------------------------------------------
(* TopN.__call__ (operations.py 485-499), one row of the group per step *)

\* The order of the heap's entries (value, slot index): tuples compare by
\* value first, then by index.
heap_less(e, f) == e[1] < f[1] \/ (e[1] = f[1] /\ e[2] < f[2])

\* heap[0] taken as the greatest entry instead of the least.
heap_first_greatest(h) == CHOOSE e \in h : \A f \in h : f = e \/ heap_less(f, e)

\* heap[0]: the least entry of the min-heap.
heap_first(h) == CHOOSE e \in h : \A f \in h : f = e \/ heap_less(e, f)

\* The place a row takes in a list sorted descending by column when it goes
\* behind every row whose value is not smaller.
insert_reverse(sorted, row, column) ==
    LET p == Cardinality({ i \in DOMAIN sorted : sorted[i][column] >= row[column] })
    IN  SubSeq(sorted, 1, p) \o <<row>> \o SubSeq(sorted, p + 1, Len(sorted))

RECURSIVE sort_reverse(_, _)
\* topn.sort(key=lambda row: row[column], reverse=True): descending by the
\* column, rows of equal value keep their order in the list.
sort_reverse(rows, column) ==
    IF rows = <<>> THEN <<>>
    ELSE insert_reverse(sort_reverse(SubSeq(rows, 1, Len(rows) - 1), column),
                        rows[Len(rows)], column)

\* Lines 489-492: the heap is not full; the row takes a new slot.
TopNPush ==
    /\ topn_pc = "loop"
    /\ topn_pos < Len(topn_rows)
    /\ Cardinality(topn_heap) < topn_op.n
    /\ LET row == topn_rows[topn_pos + 1]
       IN  /\ topn_heap' = topn_heap \cup { <<row[topn_op.column_max], Cardinality(topn_heap)>> }
           /\ topn' = Append(topn, row)
    /\ topn_pos' = topn_pos + 1
    /\ UNCHANGED <<topn_op, topn_rows, topn_out, topn_pc>>
    /\ UNCHANGED notTopN

\* Lines 493-496: the heap is full and the row's value is greater than the
\* value of heap[0]; the row takes the slot of heap[0].
TopNReplace ==
    /\ topn_pc = "loop"
    /\ topn_pos < Len(topn_rows)
    /\ Cardinality(topn_heap) >= topn_op.n
    /\ LET row == topn_rows[topn_pos + 1]
           first == heap_first(topn_heap)
           replace_idx == first[2]
       IN  /\ row[topn_op.column_max] > first[1]
           /\ topn_heap' = (topn_heap \ {first}) \cup { <<row[topn_op.column_max], replace_idx>> }
           /\ topn' = [topn EXCEPT ![replace_idx + 1] = row]
    /\ topn_pos' = topn_pos + 1
    /\ UNCHANGED <<topn_op, topn_rows, topn_out, topn_pc>>
    /\ UNCHANGED notTopN

\* Lines 488-496: the heap is full and the row's value is not greater than
\* the value of heap[0]; the row is dropped.
TopNSkip ==
    /\ topn_pc = "loop"
    /\ topn_pos < Len(topn_rows)
    /\ Cardinality(topn_heap) >= topn_op.n
    /\ ~(topn_rows[topn_pos + 1][topn_op.column_max] > heap_first(topn_heap)[1])
    /\ topn_pos' = topn_pos + 1
    /\ UNCHANGED <<topn_op, topn_rows, topn_heap, topn, topn_out, topn_pc>>
    /\ UNCHANGED notTopN

\* Lines 498-499: the rows are exhausted; the slot list is sorted in place and
\* returned.
TopNReturn ==
    /\ topn_pc = "loop"
    /\ topn_pos = Len(topn_rows)
    /\ topn' = sort_reverse(topn, topn_op.column_max)
    /\ topn_out' = topn'
    /\ topn_pc' = "done"
    /\ UNCHANGED <<topn_op, topn_rows, topn_pos, topn_heap>>
    /\ UNCHANGED notTopN

\* The groups given to TopN: the column "v" holds the value, the column "id"
\* the row's position in the group.
TopNInputs(len) ==
    { [ i \in 1..len |-> [v |-> vs[i], id |-> i] ] : vs \in [1..len -> 1..MaxVal] }

\* TopN('v', n) is called on a group.
TopNInit ==
    /\ topn_op \in [column_max : {"v"}, n : 1..MaxN]
    /\ \E len \in 0..MaxTopLen : topn_rows \in TopNInputs(len)
    /\ topn_pos = 0
    /\ topn_heap = {}
    /\ topn = <<>>
    /\ topn_out = <<>>
    /\ topn_pc = "loop"

\* No TopN is running.
TopNIdle ==
    /\ topn_op = [column_max |-> "", n |-> 0]
    /\ topn_rows = <<>>
    /\ topn_pos = 0
    /\ topn_heap = {}
    /\ topn = <<>>
    /\ topn_out = <<>>
    /\ topn_pc = "idle"

TopNNext ==
    \/ TopNPush
    \/ TopNReplace
    \/ TopNSkip
    \/ TopNReturn

---------------------------------------------------------------------------
(* Mappers that write their result into the row they are given *)

RECURSIVE column_product(_, _)
\* prod *= row[col] over the columns
column_product(columns, row) ==
    IF columns = <<>> THEN 1
    ELSE row[columns[1]] * column_product(Tail(columns), row)

\* Product.__call__: row[result_column] = prod, then the row itself is yielded.
Product(columns, result_column, row) ==
    Yielded(<<with_column(row, result_column, column_product(columns, row))>>)

\* txt.lower(), on texts over "W", "w" and " "
lower_case(txt) == [ i \in DOMAIN txt |-> IF txt[i] = "W" THEN "w" ELSE txt[i] ]

\* LowerCase.__call__: row[column] = lower, then the row itself is yielded.
LowerCase(column, row) ==
    Yielded(<<with_column(row, column, lower_case(row[column]))>>)

\* The mappers a pipeline is built with here.
RunMappers ==
    { [kind |-> "Dummy", column |-> "", columns |-> <<>>],
      [kind |-> "Filter", column |-> "", columns |-> <<>>],
      [kind |-> "Project", column |-> "", columns |-> <<"id">>],
      [kind |-> "Split", column |-> "text", columns |-> <<>>],
      [kind |-> "LowerCase", column |-> "text", columns |-> <<>>],
      [kind |-> "Product", column |-> "a", columns |-> <<"a", "b">>],
      [kind |-> "Product", column |-> "product", columns |-> <<"a", "b">>] }

\* self.mapper(row) of a pipeline's Map: the rows the mapper yields.
run_mapper(mapper, row) ==
    CASE mapper.kind = "Product"   -> Product(mapper.columns, mapper.column, row)
      [] mapper.kind = "LowerCase" -> LowerCase(mapper.column, row)
      [] OTHER                     -> call_mapper(mapper, row)

\* The contents of the row object given to the mapper once the mapper has
\* run: Product and LowerCase assign into the row they are given (lines 257
\* and 301), the other mappers leave it alone.
written_row(mapper, row) ==
    IF mapper.kind \in {"Product", "LowerCase"} THEN run_mapper(mapper, row).rows[1]
    ELSE row

---------------------------------------------------------------------------
(* Graph.run: the generator chain run -> AppendOperation -> Map ->          *)
(* ReadIterFactory, advanced by the consumer's next()                       *)

\* The state of the current run.
RunPc == IF run_no = 0 THEN "idle" ELSE run_state[run_no]

RECURSIVE pull_rows(_, _, _)
\* Map.__call__ resumed with no mapper generator open: rows are taken from the
\* source (ReadIterFactory yields them one by one) and given to the mapper
\* until the mapper yields a row or the source is exhausted.
pull_rows(mapper, data, pos) ==
    IF pos = Len(data)
    THEN [data |-> data, pos |-> pos, rows |-> <<>>, stop |-> TRUE]
    ELSE LET row == data[pos + 1]
             data2 == [data EXCEPT ![pos + 1] = written_row(mapper, row)]
             rows == run_mapper(mapper, row).rows
         IN  IF rows # <<>>
             THEN [data |-> data2, pos |-> pos + 1, rows |-> rows, stop |-> FALSE]
             ELSE pull_rows(mapper, data2, pos + 1)

\* A Map that takes one more row from the source than the mapper was given.
resume_readAhead ==
    LET r == IF run_pending # <<>>
             THEN [data |-> run_data, pos |-> run_pos, rows |-> run_pending, stop |-> FALSE]
             ELSE pull_rows(run_graph.mapper, run_data, run_pos)
    IN  [r EXCEPT !.pos = IF @ < Len(r.data) THEN @ + 1 ELSE @]

\* What one next() of the consumer does: the open mapper generator yields its
\* next row, or Map goes back to the source.
resume ==
    IF run_pending # <<>>
    THEN [data |-> run_data, pos |-> run_pos, rows |-> run_pending, stop |-> FALSE]
    ELSE pull_rows(run_graph.mapper, run_data, run_pos)

\* next() on a generator that has not started invokes the source factory
\* (kwargs[self.name](), line 39); the invocation happens once per run.
factory_invoked == 1

\* next() returns a row.
RunYield ==
    /\ RunPc \in {"created", "running"}
    /\ LET r == resume
       IN  /\ ~r.stop
           /\ run_data' = r.data
           /\ run_pos' = r.pos
           /\ run_pending' = Tail(r.rows)
           /\ run_out' = [run_out EXCEPT ![run_no] = Append(@, r.rows[1])]
    /\ run_factory' = factory_invoked
    /\ run_state' = [run_state EXCEPT ![run_no] = "running"]
    /\ UNCHANGED <<run_graph, run_orig, run_no>>
    /\ UNCHANGED notRun

\* next() raises StopIteration: the source is exhausted.
RunStop ==
    /\ RunPc \in {"created", "running"}
    /\ LET r == resume
       IN  /\ r.stop
           /\ run_data' = r.data
           /\ run_pos' = r.pos
    /\ run_factory' = factory_invoked
    /\ run_state' = [run_state EXCEPT ![run_no] = "done"]
    /\ UNCHANGED <<run_graph, run_orig, run_no, run_pending, run_out>>
    /\ UNCHANGED notRun

\* The consumer stops pulling and drops the generator.
RunAbandon ==
    /\ RunPc \in {"created", "running"}
    /\ run_state' = [run_state EXCEPT ![run_no] = "abandoned"]
    /\ UNCHANGED <<run_graph, run_orig, run_data, run_no, run_factory, run_pos,
                   run_pending, run_out>>
    /\ UNCHANGED notRun

\* Graph.run is called again on the same pipeline with a factory that
\* returns the same collection: a new generator, nothing executed yet.
RunAgain ==
    /\ RunPc \in {"done", "abandoned"}
    /\ run_no < NumRuns
    /\ run_no' = run_no + 1
    /\ run_state' = Append(run_state, "created")
    /\ run_factory' = 0
    /\ run_pos' = 0
    /\ run_pending' = <<>>
    /\ run_out' = Append(run_out, <<>>)
    /\ UNCHANGED <<run_graph, run_orig, run_data>>
    /\ UNCHANGED notRun

\* The texts of the source rows: empty, one word, one blank, two words.
RunTexts == { <<>>, <<"W">>, <<" ">>, <<"W", " ", "W">> }

\* The numbers of the source rows.
RunVals == {2, 3}

\* Source collections: rows with a text for the text mappers, rows with two
\* numbers for Product.
RunInputs(mapper, len) ==
    IF mapper.kind = "Product"
    THEN { [ i \in 1..len |-> [a |-> as[i], b |-> bs[i]] ] :
               as \in [1..len -> RunVals], bs \in [1..len -> RunVals] }
    ELSE { [ i \in 1..len |-> [id |-> i, text |-> ts[i]] ] : ts \in [1..len -> RunTexts] }

\* Graph.graph_from_iter('input').map(mapper).run(input=lambda: iter(data))
\* has been called for the first time.
RunInit ==
    /\ run_graph \in [source : {"input"}, mapper : RunMappers]
    /\ \E len \in 0..MaxRunLen : run_orig \in RunInputs(run_graph.mapper, len)
    /\ run_data = run_orig
    /\ run_no = 1
    /\ run_state = <<"created">>
    /\ run_factory = 0
    /\ run_pos = 0
    /\ run_pending = <<>>
    /\ run_out = << <<>> >>

\* No pipeline is run.
RunIdle ==
    /\ run_graph = [source |-> "", mapper |-> [kind |-> "Dummy", column |-> "", columns |-> <<>>]]
    /\ run_orig = <<>>
    /\ run_data = <<>>
    /\ run_no = 0
    /\ run_state = <<>>
    /\ run_factory = 0
    /\ run_pos = 0
    /\ run_pending = <<>>
    /\ run_out = <<>>

RunNext ==
    \/ RunYield
    \/ RunStop
    \/ RunAbandon
    \/ RunAgain

---------------------------------------------------------------------------
(* The builder methods of Graph (graph.py 7-84).  Graph and operation       *)
(* objects live in two stores and refer to each other by position.          *)

\* ReadIterFactory(name)
ReadIterFactory(name) == [kind |-> "ReadIterFactory", name |-> name]

\* Graph.AppendOperation(op_one, pipeline); pipeline is a reference.
AppendOperation(op_one, pipeline) ==
    [kind |-> "AppendOperation", op_one |-> op_one, pipeline |-> pipeline]

\* Graph.JoinGraphs(join, graph_one, graph_two); the graphs are references.
JoinGraphs(join_op, graph_one, graph_two) ==
    [kind |-> "JoinGraphs", join |-> join_op, graph_one |-> graph_one,
     graph_two |-> graph_two]

\* Graph(pipeline)
Graph(pipeline) == [pipeline |-> pipeline]

\* The mappers, reducer, joiner and key list the builder calls are made with.
BuildMappers ==
    { [kind |-> "Dummy", column |-> "", columns |-> <<>>],
      [kind |-> "Project", column |-> "", columns |-> <<"a", "b">>],
      [kind |-> "Product", column |-> "a", columns |-> <<"a", "b">>] }

\* return Graph(<a new operation>): the operation and the graph are new
\* objects added to the stores; no object in the stores is assigned to.
new_graph(operation) ==
    /\ operations' = Append(operations, operation)
    /\ graphs' = Append(graphs, Graph(Len(operations) + 1))

\* Graph.map
Graph_map ==
    /\ graphs # <<>>
    /\ Len(graphs) < MaxGraphs
    /\ \E g \in DOMAIN graphs, mapper \in BuildMappers :
           new_graph(AppendOperation([kind |-> "Map", mapper |-> mapper], graphs[g].pipeline))
    /\ UNCHANGED <<build_orig, build_data, build_log>>
    /\ UNCHANGED notBuild

\* Graph.reduce
Graph_reduce ==
    /\ graphs # <<>>
    /\ Len(graphs) < MaxGraphs
    /\ \E g \in DOMAIN graphs :
           new_graph(AppendOperation([kind |-> "Reduce",
                                      reducer |-> [kind |-> "Count", column |-> "n"],
                                      keys |-> <<"a">>],
                                     graphs[g].pipeline))
    /\ UNCHANGED <<build_orig, build_data, build_log>>
    /\ UNCHANGED notBuild

\* Graph.sort
Graph_sort_call ==
    /\ graphs # <<>>
    /\ Len(graphs) < MaxGraphs
    /\ \E g \in DOMAIN graphs :
           new_graph(AppendOperation([kind |-> "Sort", sort |-> Graph_sort(<<"a">>)],
                                     graphs[g].pipeline))
    /\ UNCHANGED <<build_orig, build_data, build_log>>
    /\ UNCHANGED notBuild

\* Graph.join: the new operation refers to the receiver and to join_graph.
Graph_join ==
    /\ graphs # <<>>
    /\ Len(graphs) < MaxGraphs
    /\ \E g \in DOMAIN graphs, join_graph \in DOMAIN graphs :
           new_graph(JoinGraphs([kind |-> "Join", joiner |-> "Inner", keys |-> <<"a">>],
                                g, join_graph))
    /\ UNCHANGED <<build_orig, build_data, build_log>>
    /\ UNCHANGED notBuild

RECURSIVE is_map_chain(_)
\* The operation is a chain of Maps over the source.
is_map_chain(o) ==
    \/ operations[o].kind = "ReadIterFactory"
    \/ /\ operations[o].kind = "AppendOperation"
       /\ operations[o].op_one.kind = "Map"
       /\ is_map_chain(operations[o].pipeline)

RECURSIVE chain_mappers(_)
\* The mappers of a chain of Maps, the one next to the source first.
chain_mappers(o) ==
    IF operations[o].kind = "ReadIterFactory" THEN <<>>
    ELSE Append(chain_mappers(operations[o].pipeline), operations[o].op_one.mapper)

\* The mapper yields the row object it was given.
yields_argument(mapper) == mapper.kind \in {"Dummy", "Filter", "Product", "LowerCase"}

RECURSIVE pass(_, _, _, _)
RECURSIVE pass_each(_, _, _, _)
\* The rows ys go, one after the other, through the mappers.
pass_each(mappers, ys, is_source, source_row) ==
    IF ys = <<>> THEN [rows |-> <<>>, source_row |-> source_row]
    ELSE LET first == pass(mappers, ys[1], is_source, source_row)
             rest == pass_each(mappers, Tail(ys), is_source, first.source_row)
         IN  [rows |-> first.rows \o rest.rows, source_row |-> rest.source_row]

\* One row goes through the chain of Maps: yield from self.mapper(row), stage
\* after stage.  is_source says that the row is the source's own row object,
\* source_row is what that object holds; a mapper that writes into the row it
\* is given writes into the source's object when it is given that object.
pass(mappers, row, is_source, source_row) ==
    IF mappers = <<>> THEN [rows |-> <<row>>, source_row |-> source_row]
    ELSE LET mapper == mappers[1]
             same == is_source /\ yields_argument(mapper)
         IN  pass_each(Tail(mappers), run_mapper(mapper, row).rows, same,
                       IF same THEN written_row(mapper, row) ELSE source_row)

RECURSIVE run_chain(_, _, _)
\* list(graph.run(input=lambda: iter(data))) for a chain of Maps: the rows
\* received, and the source collection afterwards.
run_chain(mappers, data, pos) ==
    IF pos = Len(data) THEN [rows |-> <<>>, data |-> data]
    ELSE LET one == pass(mappers, data[pos + 1], TRUE, data[pos + 1])
             rest == run_chain(mappers, [data EXCEPT ![pos + 1] = one.source_row], pos + 1)
         IN  [rows |-> one.rows \o rest.rows, data |-> rest.data]

\* Graph.run on one of the graphs built, consumed to the end.
Graph_run ==
    /\ Len(build_log) < MaxBuildRuns
    /\ \E g \in DOMAIN graphs :
           /\ is_map_chain(graphs[g].pipeline)
           /\ LET r == run_chain(chain_mappers(graphs[g].pipeline), build_data, 0)
              IN  /\ build_data' = r.data
                  /\ build_log' = Append(build_log, [graph |-> g, out |-> r.rows])
    /\ UNCHANGED <<graphs, operations, build_orig>>
    /\ UNCHANGED notBuild

\* Source collections of the pipelines built: rows of two numbers.
BuildInputs(len) ==
    { [ i \in 1..len |-> [a |-> as[i], b |-> bs[i]] ] :
          as \in [1..len -> 1..MaxKey], bs \in [1..len -> 1..MaxKey] }

\* g = Graph.graph_from_iter('input') has been called.
BuildInit ==
    /\ operations = << ReadIterFactory("input") >>
    /\ graphs = << Graph(1) >>
    /\ \E len \in 1..MaxRunLen : build_orig \in BuildInputs(len)
    /\ build_data = build_orig
    /\ build_log = <<>>

\* No pipeline is built.
BuildIdle ==
    /\ operations = <<>>
    /\ graphs = <<>>
    /\ build_orig = <<>>
    /\ build_data = <<>>
    /\ build_log = <<>>

BuildNext ==
    \/ Graph_map
    \/ Graph_reduce
    \/ Graph_sort_call
    \/ Graph_join
    \/ Graph_run

---------------------------------------------------------------------------
(* The first next() on the generator Graph.run(kwargs) returns: every     *)
(* operation of the pipeline is resumed for the first time.                 *)

\* The outcome of a generator's first resume: "row" (it yielded rows[1]),
\* "stop" (it returned), "KeyError" (kwargs[missing] raised), or "merge" (a
\* Join is past lines 152-153 and in its loop); invoked lists the source
\* factories invoked on the way.
outcome(status, rows, invoked, missing) ==
    [status |-> status, rows |-> rows, invoked |-> invoked, missing |-> missing]

\* ReadIterFactory.__call__, first resume: kwargs[self.name] is looked up, the
\* factory invoked, and the first row yielded.
read_start(name, kwargs) ==
    IF name \notin DOMAIN kwargs THEN outcome("KeyError", <<>>, <<>>, name)
    ELSE IF kwargs[name] = <<>> THEN outcome("stop", <<>>, <<name>>, "")
    ELSE outcome("row", <<kwargs[name][1]>>, <<name>>, "")

\* A Join that yields what its left input gave before it turns to its right
\* input.
join_start_leftFirst(a, b) ==
    IF a.status \in {"KeyError", "row"} THEN a
    ELSE IF b.status = "KeyError"
         THEN outcome("KeyError", <<>>, a.invoked \o b.invoked, b.missing)
         ELSE outcome("merge", <<>>, a.invoked \o b.invoked, "")

\* Join.__call__, first resume (lines 149-153): next(groupby_a, None) resumes
\* the left input, next(groupby_b, None) the right input, both before the
\* loop and before any yield; an exception of either input leaves the Join.
join_start(a, b) ==
    IF a.status = "KeyError" THEN a
    ELSE IF b.status = "KeyError"
         THEN outcome("KeyError", <<>>, a.invoked \o b.invoked, b.missing)
         ELSE outcome("merge", <<>>, a.invoked \o b.invoked, "")

\* Map.__call__ with DummyMapper and Reduce.__call__ with FirstReducer and a
\* key list, first resume: the input is resumed; its first row, if any, is
\* yielded; its exception or its end is passed on.
chain_start(input) == input

RECURSIVE first_next(_, _)
\* The first resume of an operation of the pipeline.
first_next(op, kwargs) ==
    CASE op.kind = "ReadIterFactory" -> read_start(op.name, kwargs)
      [] op.kind = "AppendOperation" -> chain_start(first_next(op.pipeline, kwargs))
      [] op.kind = "JoinGraphs" ->
             join_start(first_next(op.graph_one.pipeline, kwargs),
                        first_next(op.graph_two.pipeline, kwargs))

\* The first next() raises KeyError: a source name is not among the kwargs.
SrcFail ==
    /\ src_pc = "created"
    /\ LET r == first_next(src_graph.pipeline, src_kwargs)
       IN  /\ r.status = "KeyError"
           /\ src_invoked' = r.invoked
           /\ src_error' = r.missing
           /\ src_out' = src_out \o r.rows
    /\ src_pc' = "error"
    /\ UNCHANGED <<src_graph, src_kwargs>>
    /\ UNCHANGED notSrc

\* The first next() gets past every source lookup: it returns a row, raises
\* StopIteration, or is in the loop of a Join.
SrcProceed ==
    /\ src_pc = "created"
    /\ LET r == first_next(src_graph.pipeline, src_kwargs)
       IN  /\ r.status # "KeyError"
           /\ src_invoked' = r.invoked
           /\ src_out' = src_out \o r.rows
           /\ src_pc' = CASE r.status = "row" -> "yielded"
                          [] r.status = "stop" -> "done"
                          [] r.status = "merge" -> "merge"
    /\ UNCHANGED <<src_graph, src_kwargs, src_error>>
    /\ UNCHANGED notSrc

SourceNames == {"left", "right"}

\* The operations map and reduce append.
ChainOperations ==
    { [kind |-> "Map", mapper |-> [kind |-> "Dummy", column |-> "", columns |-> <<>>]],
      [kind |-> "Reduce", reducer |-> [kind |-> "First", column |-> ""], keys |-> <<"a">>] }

\* graph_from_iter(name) followed by at most n map or reduce calls.
RECURSIVE ChainGraphs(_)
ChainGraphs(n) ==
    IF n = 0 THEN { Graph(ReadIterFactory(name)) : name \in SourceNames }
    ELSE ChainGraphs(n - 1) \cup
         { Graph(AppendOperation(op_one, g.pipeline)) :
               op_one \in ChainOperations, g \in ChainGraphs(n - 1) }

\* Joins of two chains.
JoinedGraphs ==
    { Graph(JoinGraphs([kind |-> "Join", joiner |-> joiner, keys |-> <<"a">>], g, h)) :
          joiner \in Joiners, g \in ChainGraphs(1), h \in ChainGraphs(1) }

\* The pipelines run: chains, joins of chains, and a map or reduce on a join.
SrcGraphs ==
    ChainGraphs(2) \cup JoinedGraphs \cup
    { Graph(AppendOperation(op_one, g.pipeline)) :
          op_one \in ChainOperations, g \in JoinedGraphs }

\* The collections the source factories return.
SrcRows == { <<>>, <<[a |-> 1, b |-> 1]>>, <<[a |-> 1, b |-> 1], [a |-> 2, b |-> 2]>> }

\* run(kwargs) has been called: the generator exists, nothing has run.
SrcInit ==
    /\ src_graph \in SrcGraphs
    /\ \E names \in SUBSET SourceNames : src_kwargs \in [names -> SrcRows]
    /\ src_invoked = <<>>
    /\ src_error = ""
    /\ src_out = <<>>
    /\ src_pc = "created"

\* No such run.
SrcIdle ==
    /\ src_graph = Graph(ReadIterFactory(""))
    /\ src_kwargs = <<>>
    /\ src_invoked = <<>>
    /\ src_error = ""
    /\ src_out = <<>>
    /\ src_pc = "idle"

SrcNext ==
    \/ SrcFail
    \/ SrcProceed

---------------------------------------------------------------------------
(* Map with Divide (operations.py 56-62 and 196-211), one next() of the     *)
(* consumer per step.  The rows of the source are objects the mapper may    *)
(* write.                                                                   *)

\* What one call of the mapper comes to: the rows yielded, whether it raised
\* and what, and the row object it was given as it is afterwards.
divided(rows, error, row) == [rows |-> rows, err |-> error # "", error |-> error, row |-> row]

\* A Divide that writes the result column before it looks at the denominator.
Divide_writeFirst(op, optimize, row) ==
    IF row[op.denominator] = 0
    THEN divided(<<>>, "ZeroDivisionError", with_column(row, op.result, 0))
    ELSE LET written == with_column(row, op.result,
                                    true_div(row[op.nominator], row[op.denominator]))
         IN  divided(<<written>>, "", written)

\* Divide.__call__.  Line 209 asserts that the denominator is not 0; where
\* the interpreter runs with assert statements compiled out (optimize), the
\* division of line 210 raises ZeroDivisionError instead, before the
\* assignment to row[self.result].  Otherwise the quotient is written into
\* the row and the row itself is yielded.
Divide(op, optimize, row) ==
    IF row[op.denominator] = 0
    THEN divided(<<>>, IF optimize THEN "ZeroDivisionError" ELSE "AssertionError", row)
    ELSE LET written == with_column(row, op.result,
                                    true_div(row[op.nominator], row[op.denominator]))
         IN  divided(<<written>>, "", written)

\* next() returns a row: Map takes the next row of the source and Divide
\* yields it.
DivYield ==
    /\ div_pc = "run"
    /\ div_pos < Len(div_rows)
    /\ LET d == Divide(div_op, div_optimize, div_rows[div_pos + 1])
       IN  /\ ~d.err
           /\ div_rows' = [div_rows EXCEPT ![div_pos + 1] = d.row]
           /\ div_out' = div_out \o d.rows
    /\ div_pos' = div_pos + 1
    /\ UNCHANGED <<div_op, div_optimize, div_orig, div_error, div_pc>>
    /\ UNCHANGED notDiv

\* next() raises: Map takes the next row of the source and Divide raises on
\* it; the exception goes through Map to the consumer and ends the run.
DivRaise ==
    /\ div_pc = "run"
    /\ div_pos < Len(div_rows)
    /\ LET d == Divide(div_op, div_optimize, div_rows[div_pos + 1])
       IN  /\ d.err
           /\ div_rows' = [div_rows EXCEPT ![div_pos + 1] = d.row]
           /\ div_out' = div_out \o d.rows
           /\ div_error' = d.error
    /\ div_pos' = div_pos + 1
    /\ div_pc' = "error"
    /\ UNCHANGED <<div_op, div_optimize, div_orig>>
    /\ UNCHANGED notDiv

\* next() raises StopIteration: the source is exhausted.
DivReturn ==
    /\ div_pc = "run"
    /\ div_pos = Len(div_rows)
    /\ div_pc' = "done"
    /\ UNCHANGED <<div_op, div_optimize, div_rows, div_orig, div_pos, div_out, div_error>>
    /\ UNCHANGED notDiv

\* The values of the nominator column and of the denominator column.
Nominators == {1, 2}

Denominators == {0, 1, 2}

\* Source collections: rows with the columns "n" and "d".
DivInputs(len) ==
    { [ i \in 1..len |-> [n |-> ns[i], d |-> ds[i]] ] :
          ns \in [1..len -> Nominators], ds \in [1..len -> Denominators] }

\* Divide(nominator='n', denominator='d', result=...): the result column is a
\* new column, the nominator column or the denominator column.
DivInit ==
    /\ div_op \in [nominator : {"n"}, denominator : {"d"}, result : {"r", "n", "d"}]
    /\ div_optimize \in BOOLEAN
    /\ \E len \in 0..MaxDivLen : div_rows \in DivInputs(len)
    /\ div_orig = div_rows
    /\ div_pos = 0
    /\ div_out = <<>>
    /\ div_error = ""
    /\ div_pc = "run"

\* No Map with Divide runs.
DivIdle ==
    /\ div_op = [nominator |-> "", denominator |-> "", result |-> ""]
    /\ div_optimize = FALSE
    /\ div_rows = <<>>
    /\ div_orig = <<>>
    /\ div_pos = 0
    /\ div_out = <<>>
    /\ div_error = ""
    /\ div_pc = "idle"

DivNext ==
    \/ DivYield
    \/ DivRaise
    \/ DivReturn

---------------------------------------------------------------------------
(* Specifications: one operation runs, on every input within the bounds *)

\* A join is about to run; nothing else does.
InitJoin == JoinInit /\ ReduceIdle /\ SortIdle /\ MapIdle /\ TopNIdle /\ RunIdle /\ BuildIdle /\ SrcIdle /\ DivIdle

SpecJoin == InitJoin /\ [][JoinNext]_vars

\* A reduce is about to run; nothing else does.
InitReduce == ReduceInit /\ JoinIdle /\ SortIdle /\ MapIdle /\ TopNIdle /\ RunIdle /\ BuildIdle /\ SrcIdle /\ DivIdle

SpecReduce == InitReduce /\ [][ReduceNext]_vars

\* A sort is about to run; nothing else does.
InitSort == SortInit /\ JoinIdle /\ ReduceIdle /\ MapIdle /\ TopNIdle /\ RunIdle /\ BuildIdle /\ SrcIdle /\ DivIdle

SpecSort == InitSort /\ [][SortNext]_vars

\* A map is about to run; nothing else does.
InitMap == MapInit /\ JoinIdle /\ ReduceIdle /\ SortIdle /\ TopNIdle /\ RunIdle /\ BuildIdle /\ SrcIdle /\ DivIdle

SpecMap == InitMap /\ [][MapNext]_vars

\* A TopN is about to be called on a group; nothing else runs.
InitTopN == TopNInit /\ JoinIdle /\ ReduceIdle /\ SortIdle /\ MapIdle /\ RunIdle /\ BuildIdle /\ SrcIdle /\ DivIdle

SpecTopN == InitTopN /\ [][TopNNext]_vars

\* A built pipeline has been given to a consumer who runs it; nothing else runs.
InitRun == RunInit /\ JoinIdle /\ ReduceIdle /\ SortIdle /\ MapIdle /\ TopNIdle /\ BuildIdle /\ SrcIdle /\ DivIdle

SpecRun == InitRun /\ [][RunNext]_vars

\* A source graph exists and pipelines are built from it; no operation runs
\* by itself.
InitBuild == BuildInit /\ JoinIdle /\ ReduceIdle /\ SortIdle /\ MapIdle /\ TopNIdle /\ RunIdle
                 /\ SrcIdle /\ DivIdle

SpecBuild == InitBuild /\ [][BuildNext]_vars

\* Graph.run has been called with some of the sources; nothing else runs.
InitSrc == SrcInit /\ JoinIdle /\ ReduceIdle /\ SortIdle /\ MapIdle /\ TopNIdle /\ RunIdle
               /\ BuildIdle /\ DivIdle

SpecSrc == InitSrc /\ [][SrcNext]_vars

\* A Map with Divide is about to run; nothing else does.
InitDiv == DivInit /\ JoinIdle /\ ReduceIdle /\ SortIdle /\ MapIdle /\ TopNIdle /\ RunIdle
               /\ BuildIdle /\ SrcIdle

SpecDiv == InitDiv /\ [][DivNext]_vars

---------------------------------------------------------------------------
(* Vocabulary of the join properties *)

\* The join has ended, by returning or by an exception.
JoinEnded == join_pc \in {"done", "error"}

\* The join has returned normally.
JoinCompleted == join_pc = "done"

Max(x, y) == IF x >= y THEN x ELSE y

KeyTuples(rows) == { KeyOf(rows[i], join.keys) : i \in DOMAIN rows }

\* Positions of the rows of one key tuple.
RowsOfKey(rows, kt) == { i \in DOMAIN rows : KeyOf(rows[i], join.keys) = kt }

RECURSIVE SumOver(_, _)
\* The sum of f[x] over the finite set S.
SumOver(S, f) ==
    IF S = {} THEN 0
    ELSE LET x == CHOOSE y \in S : TRUE IN f[x] + SumOver(S \ {x}, f)

\* Output positions holding a row combined from left row i and right row j:
\* it carries the left row's "a" and the right row's "b".
PairRows(i, j) ==
    { n \in DOMAIN join_out :
        /\ {"a", "b"} \subseteq DOMAIN join_out[n]
        /\ join_out[n].a = rows_a[i].a
        /\ join_out[n].b = rows_b[j].b }

\* Output positions holding a row that left row i contributed to.
FromLeft(i) ==
    { n \in DOMAIN join_out : "a" \in DOMAIN join_out[n] /\ join_out[n].a = rows_a[i].a }

\* Output positions holding a row that right row j contributed to.
FromRight(j) ==
    { n \in DOMAIN join_out : "b" \in DOMAIN join_out[n] /\ join_out[n].b = rows_b[j].b }

\* Output positions holding exactly the row r.
Copies(r) == { n \in DOMAIN join_out : join_out[n] = r }

MatchedPairs ==
    { p \in (DOMAIN rows_a) \X (DOMAIN rows_b) :
        KeyOf(rows_a[p[1]], join.keys) = KeyOf(rows_b[p[2]], join.keys) }

UnmatchedLeft == { i \in DOMAIN rows_a : KeyOf(rows_a[i], join.keys) \notin KeyTuples(rows_b) }

UnmatchedRight == { j \in DOMAIN rows_b : KeyOf(rows_b[j], join.keys) \notin KeyTuples(rows_a) }

\* Every matched pair has exactly one combined row in the output.
CrossProductEmitted == \A p \in MatchedPairs : Cardinality(PairRows(p[1], p[2])) = 1

\* The output of an inner join, as the claim states it.
InnerJoinOutput ==
    /\ CrossProductEmitted
    /\ \A i \in UnmatchedLeft : FromLeft(i) = {}
    /\ \A j \in UnmatchedRight : FromRight(j) = {}
    /\ LET shared == KeyTuples(rows_a) \cap KeyTuples(rows_b)
           product == [ kt \in shared |->
               Cardinality(RowsOfKey(rows_a, kt)) * Cardinality(RowsOfKey(rows_b, kt)) ]
       IN  Len(join_out) = SumOver(shared, product)

\* The output of an outer join, as the claim states it.
OuterJoinOutput ==
    /\ \A i \in DOMAIN rows_a : FromLeft(i) # {}
    /\ \A j \in DOMAIN rows_b : FromRight(j) # {}
    /\ \A i \in UnmatchedLeft : FromLeft(i) = Copies(rows_a[i]) /\ Cardinality(Copies(rows_a[i])) = 1
    /\ \A j \in UnmatchedRight : FromRight(j) = Copies(rows_b[j]) /\ Cardinality(Copies(rows_b[j])) = 1

\* The output of a left join, as the claim states it.
LeftJoinOutput ==
    /\ \A i \in UnmatchedLeft : FromLeft(i) = Copies(rows_a[i]) /\ Cardinality(Copies(rows_a[i])) = 1
    /\ \A j \in UnmatchedRight : FromRight(j) = {}
    /\ CrossProductEmitted
    /\ LET count == [ kt \in KeyTuples(rows_a) |->
               Cardinality(RowsOfKey(rows_a, kt)) * Max(Cardinality(RowsOfKey(rows_b, kt)), 1) ]
       IN  Len(join_out) = SumOver(KeyTuples(rows_a), count)

\* The output of a right join, as the claim states it.
RightJoinOutput ==
    /\ \A j \in UnmatchedRight : FromRight(j) = Copies(rows_b[j]) /\ Cardinality(Copies(rows_b[j])) = 1
    /\ \A i \in UnmatchedLeft : FromLeft(i) = {}
    /\ CrossProductEmitted
    /\ LET count == [ kt \in KeyTuples(rows_b) |->
               Cardinality(RowsOfKey(rows_b, kt)) * Max(Cardinality(RowsOfKey(rows_a, kt)), 1) ]
       IN  Len(join_out) = SumOver(KeyTuples(rows_b), count)

---------------------------------------------------------------------------
(* Claims about the join *)

\* C1 (as claimed): whenever a join with InnerJoiner has ended, its output holds
\* exactly one combined row per (left row, right row) pair of every key tuple
\* present on both sides, no row of a key tuple present on one side only, and
\* as many rows as the sum over the shared key tuples of |leftGroup| x |rightGroup|.
C1_InnerJoinCompleteness ==
    (JoinEnded /\ join.joiner = "Inner") => InnerJoinOutput

\* C1 (runs that return): the same statement for the inner joins that return
\* without an exception.
C1_InnerJoinCompleteness_Completed ==
    (JoinCompleted /\ join.joiner = "Inner") => InnerJoinOutput

\* C5 (as claimed): whenever a join with OuterJoiner has ended, every left row
\* and every right row has contributed to at least one output row, and each
\* row of a key tuple present on one side only is in the output unchanged,
\* exactly once.
C5_OuterJoinCompleteness ==
    (JoinEnded /\ join.joiner = "Outer") => OuterJoinOutput

\* C5 (runs that return): the same statement for the outer joins that return
\* without an exception.
C5_OuterJoinCompleteness_Completed ==
    (JoinCompleted /\ join.joiner = "Outer") => OuterJoinOutput

\* C6 (as claimed): whenever a join with LeftJoiner has ended, each left row
\* whose key has no right group is in the output unchanged exactly once, no
\* output row comes from a right row whose key has no left group, every
\* matched pair has exactly one combined row, and the output has as many rows
\* as the sum over the left groups of |leftGroup| x max(|rightGroup|, 1).
C6_LeftJoin ==
    (JoinEnded /\ join.joiner = "Left") => LeftJoinOutput

\* C6 (runs that return): the same statement for the left joins that return
\* without an exception.
C6_LeftJoin_Completed ==
    (JoinCompleted /\ join.joiner = "Left") => LeftJoinOutput

\* C7 (as claimed): whenever a join with RightJoiner has ended, each right row
\* whose key has no left group is in the output unchanged exactly once (never
\* twice), no output row comes from a left row whose key has no right group,
\* and every matched pair has exactly one combined row.
C7_RightJoin ==
    (JoinEnded /\ join.joiner = "Right") => RightJoinOutput

\* C7 (runs that return): the same statement for the right joins that return
\* without an exception.
C7_RightJoin_Completed ==
    (JoinCompleted /\ join.joiner = "Right") => RightJoinOutput

\* The merge loop is about to pass a left and a right group of equal key
\* tuples to the joiner (the branch of lines 162-165).
MatchedCall ==
    /\ join_pc = "merge"
    /\ group_one # NoGroup /\ group_two # NoGroup
    /\ ~TupleLess(group_one.key, group_two.key)
    /\ ~TupleLess(group_two.key, group_one.key)

\* The rows joiner `name` emits for the current pair of groups.
MatchedRows(name) ==
    Range(call_joiner(name, join.keys,
                      GroupRows(rows_a, group_one), GroupRows(rows_b, group_two)).rows)

\* C8 (as claimed): for one non-empty left group and one non-empty right
\* group, all four joiners emit the same set of combined rows, and for every
\* left row and right row of the groups and every non-key column c that both
\* have, each joiner emits a row holding the left row's value under c_1 and
\* the right row's value under c_2.
C8_MatchedCallShared ==
    MatchedCall =>
        /\ \A name \in Joiners : MatchedRows(name) = MatchedRows("Inner")
        /\ \A name \in Joiners :
           \A i \in group_one.lo..group_one.hi, j \in group_two.lo..group_two.hi :
           \A c \in (DOMAIN rows_a[i] \cap DOMAIN rows_b[j]) \ Range(join.keys) :
              \E r \in MatchedRows(name) :
                 /\ {c \o a_suffix, c \o b_suffix} \subseteq DOMAIN r
                 /\ r[c \o a_suffix] = rows_a[i][c]
                 /\ r[c \o b_suffix] = rows_b[j][c]

\* The combined row of left row ra and right row rb as the row-combination
\* rule states it: key columns once, one-sided columns as they are, shared
\* non-key columns twice under the suffixed names.
Combined(ra, rb, keys) ==
    LET A == DOMAIN ra
        B == DOMAIN rb
        K == Range(keys)
        shared == (A \cap B) \ K
        plain == (A \cup B) \ shared
    IN  [ n \in plain \cup { c \o a_suffix : c \in shared } \cup { c \o b_suffix : c \in shared } |->
            IF n \in plain
            THEN IF n \in A THEN ra[n] ELSE rb[n]
            ELSE IF \E c \in shared : c \o a_suffix = n
                 THEN ra[CHOOSE c \in shared : c \o a_suffix = n]
                 ELSE rb[CHOOSE c \in shared : c \o b_suffix = n] ]

\* C9 (as claimed): whenever a join whose joiner iterates the left group
\* (Inner, Left, Outer) has ended, every matched pair of a left row and a
\* right row has its combined row in the output: key columns once, columns of
\* one row only with that row's value, shared non-key columns under both
\* suffixed names and not under the bare name.
C9_RowCombination ==
    (JoinEnded /\ join.joiner \in {"Inner", "Left", "Outer"}) =>
        \A p \in MatchedPairs :
            \E n \in PairRows(p[1], p[2]) :
                join_out[n] = Combined(rows_a[p[1]], rows_b[p[2]], join.keys)

---------------------------------------------------------------------------
(* Claims about Reduce *)

ReduceKey(i) == KeyOf(reduce_rows[i], reduce.keys)

\* S is a maximal run of the input: consecutive positions with one key tuple,
\* not extendable on either side.
IsMaximalRun(S) ==
    \E lo \in DOMAIN reduce_rows, hi \in DOMAIN reduce_rows :
        /\ lo <= hi
        /\ S = lo..hi
        /\ \A i \in S : ReduceKey(i) = ReduceKey(lo)
        /\ lo = 1 \/ ReduceKey(lo - 1) # ReduceKey(lo)
        /\ hi = Len(reduce_rows) \/ ReduceKey(hi + 1) # ReduceKey(hi)

MaximalRuns == { S \in SUBSET (DOMAIN reduce_rows) : IsMaximalRun(S) }

\* Positions i < m < j where rows i and j share a key tuple that row m does not have.
Separated(i, m, j) ==
    /\ i < m /\ m < j
    /\ ReduceKey(i) = ReduceKey(j)
    /\ ReduceKey(m) # ReduceKey(i)

\* The reduce of a non-empty key list has returned.
KeyedReduceDone == reduce_pc = "done" /\ reduce.keys # <<>>

\* C2: when a Reduce with a non-empty key list has returned, the reducer was
\* invoked exactly once for each maximal run of consecutive rows with one key
\* tuple and for nothing else, in input order; two rows of one key tuple
\* separated by a row of another went to different invocations; and Count
\* emitted one row per invocation, holding that run's key and its length.
C2_ReduceContiguity ==
    KeyedReduceDone =>
        /\ \A n \in DOMAIN reduce_calls : IsMaximalRun(reduce_calls[n])
        /\ \A S \in MaximalRuns :
               Cardinality({ n \in DOMAIN reduce_calls : reduce_calls[n] = S }) = 1
        /\ \A n \in DOMAIN reduce_calls, m \in DOMAIN reduce_calls :
               n < m => \A i \in reduce_calls[n], j \in reduce_calls[m] : i < j
        /\ \A i \in DOMAIN reduce_rows, m \in DOMAIN reduce_rows, j \in DOMAIN reduce_rows :
               Separated(i, m, j) =>
                   \A n \in DOMAIN reduce_calls : ~({i, j} \subseteq reduce_calls[n])
        /\ reduce.reducer.kind = "Count" =>
               /\ Len(reduce_out) = Len(reduce_calls)
               /\ \A n \in DOMAIN reduce_calls :
                      \A i \in reduce_calls[n] :
                          reduce_out[n] = [a |-> reduce_rows[i].a,
                                           n |-> Cardinality(reduce_calls[n])]

\* C2 witness: a Count over an input where a key reappears after another key
\* has returned two result rows for that key.
C2_Witness ==
    /\ KeyedReduceDone
    /\ reduce.reducer.kind = "Count"
    /\ \E i \in DOMAIN reduce_rows, m \in DOMAIN reduce_rows, j \in DOMAIN reduce_rows :
           /\ Separated(i, m, j)
           /\ \E n1 \in DOMAIN reduce_out, n2 \in DOMAIN reduce_out :
                  /\ n1 < n2
                  /\ reduce_out[n1].a = reduce_rows[i].a
                  /\ reduce_out[n2].a = reduce_rows[j].a

---------------------------------------------------------------------------
(* Claims about the sort *)

SortDone == sort_pc = "done"

\* The key tuple of a row under the key list the sort was asked for.
SortKey(row) == KeyOf(row, sort_keys)

\* C3: when sort(keys) has returned, its output is a permutation of the input
\* (as long as the input, every input row in it exactly once; the rows are
\* pairwise different) whose key tuples never decrease.
C3_SortOrdering ==
    SortDone =>
        /\ Len(sort_out) = Len(sort_rows)
        /\ \A i \in DOMAIN sort_rows :
               Cardinality({ n \in DOMAIN sort_out : sort_out[n] = sort_rows[i] }) = 1
        /\ \A n \in DOMAIN sort_out, m \in DOMAIN sort_out :
               n < m => ~TupleLess(SortKey(sort_out[m]), SortKey(sort_out[n]))

\* C3 witness: a three-row input that is out of order, sorted through more
\* than one run.
C3_Witness ==
    /\ SortDone
    /\ Len(sort_rows) = 3
    /\ Len(sort_runs) > 1
    /\ \E i \in DOMAIN sort_rows, j \in DOMAIN sort_rows :
           i < j /\ TupleLess(SortKey(sort_rows[j]), SortKey(sort_rows[i]))

\* Position of input row i in the stable order: behind the rows with a
\* smaller key tuple and the earlier rows with the same key tuple.
StableRank(i) ==
    1 + Cardinality({ j \in DOMAIN sort_rows :
            \/ TupleLess(SortKey(sort_rows[j]), SortKey(sort_rows[i]))
            \/ SortKey(sort_rows[j]) = SortKey(sort_rows[i]) /\ j < i })

\* The input in stable order; it does not depend on the run size.
StableSorted ==
    [ n \in DOMAIN sort_rows |-> sort_rows[CHOOSE i \in DOMAIN sort_rows : StableRank(i) = n] ]

\* C4: at every moment the rows of one key tuple are in the output in their
\* input order (column "b" holds the input position), and when the sort has
\* returned the output is the input in stable order, whatever the run size.
C4_SortStability ==
    /\ \A n \in DOMAIN sort_out, m \in DOMAIN sort_out :
           (n < m /\ SortKey(sort_out[n]) = SortKey(sort_out[m])) => sort_out[n].b < sort_out[m].b
    /\ SortDone => sort_out = StableSorted

\* C4 witness: one row per run, and two rows of one key tuple, which the
\* merge therefore takes from different runs.
C4_Witness ==
    /\ SortDone
    /\ sort_run_size = 1
    /\ \E i \in DOMAIN sort_rows, j \in DOMAIN sort_rows :
           i < j /\ SortKey(sort_rows[i]) = SortKey(sort_rows[j])

---------------------------------------------------------------------------
(* Claims about Map *)

RECURSIVE Emissions(_)
\* What the mapper emits for the first n input rows, row after row.
Emissions(n) ==
    IF n = 0 THEN <<>>
    ELSE Emissions(n - 1) \o call_mapper(map_op.mapper, map_rows[n]).rows

\* The mapper emits exactly one row for every row of this input.
OneRowPerInput ==
    \A i \in DOMAIN map_rows : Len(call_mapper(map_op.mapper, map_rows[i]).rows) = 1

\* C10: the output of Map is, at every moment, the concatenation in input
\* order of what the mapper emitted for the rows taken so far; Map returns
\* only after the last input row; and with a mapper that emits one row per
\* input row the output is as long as the input and its i-th row is the
\* mapper's row for the i-th input row.
C10_MapOrderAndCount ==
    map_pc \in {"run", "done"} =>
        /\ map_out = Emissions(map_pos)
        /\ map_pc = "done" => map_pos = Len(map_rows)
        /\ (map_pc = "done" /\ OneRowPerInput) =>
               /\ Len(map_out) = Len(map_rows)
               /\ \A i \in DOMAIN map_rows :
                      map_out[i] = call_mapper(map_op.mapper, map_rows[i]).rows[1]

\* C10 witness: a finished Map over several rows for one of which the mapper
\* emitted several rows and for another none or one.
C10_Witness ==
    /\ map_pc = "done"
    /\ \E i \in DOMAIN map_rows, j \in DOMAIN map_rows :
           /\ Len(call_mapper(map_op.mapper, map_rows[i]).rows) > 1
           /\ Len(call_mapper(map_op.mapper, map_rows[j]).rows) = 1
    /\ Len(map_out) > Len(map_rows)

---------------------------------------------------------------------------
(* Claims about Reduce with an empty key list *)

\* The reduce of an empty key list has returned.
EmptyKeyReduceDone == reduce_pc = "done" /\ reduce.keys = <<>>

\* The distinct values of column "a" over the whole input.
DistinctValues == { reduce_rows[i].a : i \in DOMAIN reduce_rows }

\* C11: a Reduce with an empty key list invokes the reducer exactly once, with
\* all input rows whatever their values (also for an empty input), and its
\* output is that invocation's output; CountUnique then emits exactly one
\* row, holding the number of distinct values over the whole input.
C11_EmptyKeySingleGroup ==
    reduce.keys = <<>> =>
        /\ reduce_pc = "start" => reduce_calls = <<>> /\ reduce_out = <<>>
        /\ reduce_pc = "done" =>
               /\ reduce_calls = << DOMAIN reduce_rows >>
               /\ reduce_out = call_reducer(reduce.reducer, <<>>, reduce_rows).rows
               /\ reduce.reducer.kind = "CountUnique" =>
                      reduce_out = << [n |-> Cardinality(DistinctValues)] >>
               /\ reduce.reducer.kind = "Count" =>
                      reduce_out = << [n |-> Len(reduce_rows)] >>

\* C11 witness: a CountUnique over an unsorted input in which a value comes
\* back after another one has returned one row with the number of distinct
\* values, which is less than the number of rows.
C11_Witness ==
    /\ EmptyKeyReduceDone
    /\ reduce.reducer.kind = "CountUnique"
    /\ \E i \in DOMAIN reduce_rows, m \in DOMAIN reduce_rows, j \in DOMAIN reduce_rows :
           /\ i < m /\ m < j
           /\ reduce_rows[i].a = reduce_rows[j].a
           /\ reduce_rows[m].a # reduce_rows[i].a
    /\ Len(reduce_out) = 1
    /\ reduce_out[1].n = Cardinality(DistinctValues)
    /\ reduce_out[1].n < Len(reduce_rows)

---------------------------------------------------------------------------
(* Claims about TopN *)

\* TopN has returned.
TopNDone == topn_pc = "done"

TopValue(i) == topn_rows[i][topn_op.column_max]

\* Number of rows TopN has to emit: min(n, |group|).
TopCount == IF topn_op.n <= Len(topn_rows) THEN topn_op.n ELSE Len(topn_rows)

\* The place of row i of the group when the group is sorted stably,
\* descending by value: behind every row of greater value and every earlier
\* row of equal value.
DescendingRank(i) ==
    1 + Cardinality({ j \in DOMAIN topn_rows : TopValue(j) > TopValue(i) })
      + Cardinality({ j \in DOMAIN topn_rows : j < i /\ TopValue(j) = TopValue(i) })

\* The row at place r of the stably sorted group.
RankedRow(r) == topn_rows[CHOOSE i \in DOMAIN topn_rows : DescendingRank(i) = r]

\* C12: when TopN has returned, its output is the first min(n, |group|) rows
\* of the group sorted stably, descending by value: among rows of equal value
\* the earliest are kept, and they come out in input order.
C12_TopNTieBreak ==
    TopNDone =>
        /\ Len(topn_out) = TopCount
        /\ \A r \in 1..TopCount : topn_out[r] = RankedRow(r)

\* C20: after every processed row the heap and the slot list correspond one
\* to one (entry (v, i) means slot i holds a row of value v, every slot has
\* one entry); when TopN has returned it has emitted min(n, |group|) rows,
\* each a row of the group as it was, none twice, whose values are the
\* min(n, |group|) greatest values of the group, in non-increasing order.
C20_TopNValues ==
    /\ topn_pc = "loop" =>
           /\ Len(topn) = Cardinality(topn_heap)
           /\ { e[2] : e \in topn_heap } = 0..(Len(topn) - 1)
           /\ \A e \in topn_heap : topn[e[2] + 1][topn_op.column_max] = e[1]
    /\ TopNDone =>
           /\ Len(topn_out) = TopCount
           /\ \A r \in DOMAIN topn_out : \E i \in DOMAIN topn_rows : topn_out[r] = topn_rows[i]
           /\ \A r \in DOMAIN topn_out, q \in DOMAIN topn_out :
                  r # q => topn_out[r] # topn_out[q]
           /\ \A r \in DOMAIN topn_out :
                  topn_out[r][topn_op.column_max] = RankedRow(r)[topn_op.column_max]
           /\ \A r \in DOMAIN topn_out, q \in DOMAIN topn_out :
                  r < q => topn_out[r][topn_op.column_max] >= topn_out[q][topn_op.column_max]

\* C20 witness: TopN has returned after replacing a kept row and after
\* dropping a row, on a group longer than n with rows of equal value.
C20_Witness ==
    /\ TopNDone
    /\ Len(topn_rows) > topn_op.n
    /\ topn_op.n >= 2
    /\ \E i \in DOMAIN topn_rows, j \in DOMAIN topn_rows : i < j /\ TopValue(i) = TopValue(j)
    /\ \E i \in DOMAIN topn_rows : i > topn_op.n /\ Range(topn_out) = Range(topn_out) \ {topn_rows[i]}
    /\ \E i \in DOMAIN topn_rows : i > topn_op.n /\ topn_rows[i] \in Range(topn_out)

---------------------------------------------------------------------------
(* Claims about Sum and Count *)

\* The reduce has returned.
ReduceDone == reduce_pc = "done"

\* The key columns of the group of invocation n, with the group's key values.
GroupKeyColumns(n) ==
    [ c \in Range(reduce.keys) |->
        reduce_rows[CHOOSE i \in reduce_calls[n] : TRUE][c] ]

\* The row Count or Sum has to emit for invocation n: the key columns plus
\* the aggregate column.
AggregateRow(n, column, value) ==
    [ c \in Range(reduce.keys) \cup {column} |->
        IF c = column THEN value ELSE GroupKeyColumns(n)[c] ]

\* The sum of column b over the rows of invocation n.
GroupSum(n) == SumOver(reduce_calls[n], [ i \in reduce_calls[n] |-> reduce_rows[i].b ])

\* C13: Count and Sum emit exactly one row per group, holding exactly the
\* group's key columns with the group's key values plus the aggregate column:
\* the number of rows of the group for Count, the sum of the column over the
\* group's rows for Sum; the Count values add up to the number of input rows.
C13_SumAndCount ==
    (ReduceDone /\ reduce.reducer.kind \in {"Count", "Sum"}) =>
        /\ Len(reduce_out) = Len(reduce_calls)
        /\ reduce.reducer.kind = "Count" =>
               /\ \A n \in DOMAIN reduce_calls :
                      reduce_out[n] = AggregateRow(n, "n", Cardinality(reduce_calls[n]))
               /\ SumOver(DOMAIN reduce_out, [ n \in DOMAIN reduce_out |-> reduce_out[n].n ])
                      = Len(reduce_rows)
        /\ reduce.reducer.kind = "Sum" =>
               \A n \in DOMAIN reduce_calls :
                   reduce_out[n] = AggregateRow(n, "b", GroupSum(n))

\* C13 witness: a Sum by key over an input of several groups, one of them of
\* several rows, has returned one row per group.
C13_Witness ==
    /\ ReduceDone
    /\ reduce.reducer.kind = "Sum"
    /\ reduce.keys = <<"a">>
    /\ Len(reduce_out) >= 2
    /\ \E n \in DOMAIN reduce_calls :
           /\ Cardinality(reduce_calls[n]) >= 2
           /\ reduce_out[n].b = GroupSum(n)
           /\ reduce_out[n].b # reduce_rows[CHOOSE i \in reduce_calls[n] : TRUE].b

---------------------------------------------------------------------------
(* Claims about runs of a built pipeline *)

\* Run k of the pipeline went to the end of the source.
RunCompleted(k) == k \in DOMAIN run_state /\ run_state[k] = "done"

\* C14: a run does not modify the rows of the source collection, and two
\* completed runs of one pipeline over the same collection gave the consumer
\* identical output sequences, whatever the mapper and its result column.
C14_RunIndependence ==
    /\ run_data = run_orig
    /\ \A j \in DOMAIN run_state, k \in DOMAIN run_state :
           (RunCompleted(j) /\ RunCompleted(k)) => run_out[j] = run_out[k]

---------------------------------------------------------------------------
(* Claims about the builder methods *)

\* A step that builds: one more Graph object exists afterwards.
Builds == Len(graphs') = Len(graphs) + 1

\* Every Graph and operation object that exists keeps what it holds.
ObjectsKept ==
    /\ Len(graphs') >= Len(graphs)
    /\ Len(operations') >= Len(operations)
    /\ \A g \in DOMAIN graphs : graphs'[g] = graphs[g]
    /\ \A o \in DOMAIN operations : operations'[o] = operations[o]

\* Every builder call returns a new Graph on a new operation and leaves every
\* existing Graph and operation, the receiver and join's other graph
\* included, as it was.
BuildersLeavePipelines ==
    [][ /\ ObjectsKept
        /\ Builds => /\ Len(operations') = Len(operations) + 1
                     /\ graphs'[Len(graphs')].pipeline = Len(operations')
      ]_vars

RECURSIVE AloneRun(_, _)
\* What the j-th run of graph g gives, and leaves of the source collection,
\* when no other graph is ever run.
AloneRun(g, j) ==
    run_chain(chain_mappers(graphs[g].pipeline),
              IF j = 1 THEN build_orig ELSE AloneRun(g, j - 1).data, 0)

\* The number of runs of graph g among the first n runs made.
RunsOf(g, n) == Cardinality({ m \in 1..n : build_log[m].graph = g })

\* Every run of a graph gave the output it gives when the other graphs are
\* neither built nor run.
RunsIndependentOfOtherGraphs ==
    \A n \in DOMAIN build_log :
        build_log[n].out = AloneRun(build_log[n].graph, RunsOf(build_log[n].graph, n)).rows

\* C15: builder calls return new Graphs and leave the pipelines of the
\* receiver and of join's other graph unchanged, and the output of a graph
\* does not depend on which other graphs were built from the same prefix or
\* run: running g after g1 = g.map(m1) and g2 = g.map(m2) were built and run
\* yields what g yields alone, and so for g1.
C15_PipelineImmutability == []RunsIndependentOfOtherGraphs /\ BuildersLeavePipelines

---------------------------------------------------------------------------
(* Claims about missing sources *)

RECURSIVE SourcesOf(_)
\* The source names an operation refers to.
SourcesOf(op) ==
    CASE op.kind = "ReadIterFactory" -> {op.name}
      [] op.kind = "AppendOperation" -> SourcesOf(op.pipeline)
      [] op.kind = "JoinGraphs" ->
             SourcesOf(op.graph_one.pipeline) \cup SourcesOf(op.graph_two.pipeline)

\* The pipeline refers to a source name that was not supplied to run.
RefersToMissingSource == SourcesOf(src_graph.pipeline) \ DOMAIN src_kwargs # {}

\* The consumer has asked for the first row.
SrcPulled == src_pc \notin {"idle", "created"}

\* C16: when the pipeline refers to a source name that was not supplied, the
\* run fails when the consumer asks for the first row, with the lookup error
\* of a name that is referred to and not supplied, and the consumer has
\* received no row; wherever the reference sits, the right branch of a join
\* whose left source is supplied included.  With every source supplied no
\* lookup fails.
C16_MissingSource ==
    SrcPulled =>
        /\ RefersToMissingSource =>
               /\ src_pc = "error"
               /\ src_error \in SourcesOf(src_graph.pipeline) \ DOMAIN src_kwargs
               /\ src_out = <<>>
        /\ ~RefersToMissingSource => src_pc # "error" /\ src_error = ""

\* C16 witness: a join whose left source is supplied with rows and invoked,
\* and whose right source is missing, has failed.
C16_Witness ==
    /\ src_pc = "error"
    /\ src_graph.pipeline.kind = "JoinGraphs"
    /\ src_error = "right"
    /\ src_invoked = <<"left">>
    /\ src_kwargs["left"] # <<>>
    /\ src_out = <<>>

---------------------------------------------------------------------------
(* Claims about the order of evaluation of a run *)

\* The pipeline's mapper yields exactly one row for every row of the source.
OneRowMapper ==
    \A i \in DOMAIN run_orig : Len(run_mapper(run_graph.mapper, run_orig[i]).rows) = 1

\* run has been called and no row requested: no factory invoked, no row
\* pulled, nothing yielded.
NothingBeforeFirstNext ==
    RunPc = "created" =>
        /\ run_factory = 0
        /\ run_pos = 0
        /\ run_out[run_no] = <<>>

\* With a one-row-per-input mapper the rows pulled from the source are as
\* many as the rows the consumer has received.
PulledAsReceived ==
    (run_no > 0 /\ OneRowMapper) => run_pos = Len(run_out[run_no])

\* Once the consumer has dropped the generator, nothing of that run moves:
\* no source row is pulled, no factory invoked, no row yielded.
AbandonedRunRests ==
    [][ RunPc = "abandoned" =>
            /\ run_data' = run_data
            /\ \A k \in DOMAIN run_out : run_out'[k] = run_out[k]
            /\ run_no' = run_no => (run_pos' = run_pos /\ run_factory' = run_factory) ]_vars

\* C17: evaluation is pull-based: calling run invokes no source factory until
\* the first row is requested; through a one-row-per-input mapper exactly k
\* source rows have been pulled when the consumer has received k rows; and
\* after the consumer stops pulling no further source row is pulled.
C17_PullBasedEvaluation ==
    /\ [](NothingBeforeFirstNext /\ PulledAsReceived)
    /\ AbandonedRunRests

\* The consumer took one row of a two-row source through a one-row-per-input
\* mapper and dropped the generator; one source row was never pulled.
C17_Witness ==
    /\ RunPc = "abandoned"
    /\ OneRowMapper
    /\ Len(run_data) = 2
    /\ Len(run_out[run_no]) = 1
    /\ run_pos = 1
    /\ run_factory = 1

---------------------------------------------------------------------------
(* Claims about the run storage of the sort *)

\* The sort invocation has ended: its output ended, an error left it, or the
\* consumer dropped its output.
SortEnded == sort_pc \in {"done", "error", "abandoned"}

\* The runs the merge has not fully consumed.
RunsInFlight == { r \in DOMAIN sort_next : sort_next[r] <= Len(sort_runs[r]) }

---------------------------------------------------------------------------
(* Claims about the merge steps of the join *)

\* The key tuples of either input.
AllKeyTuples == KeyTuples(rows_a) \cup KeyTuples(rows_b)

\* The group of key tuple kt in a sorted stream: all its rows, or no group.
GroupOfKey(rows, kt) ==
    IF kt \notin KeyTuples(rows) THEN NoGroup
    ELSE LET at == RowsOfKey(rows, kt)
         IN  [key |-> kt,
              lo |-> CHOOSE i \in at : \A j \in at : i <= j,
              hi |-> CHOOSE i \in at : \A j \in at : i >= j]

\* The key tuple a joiner invocation was made for.
CallKey(call) == IF call.a # NoGroup THEN call.a.key ELSE call.b.key

\* Every invocation made so far was given the whole left group and the whole
\* right group of one key tuple, an empty side exactly where the key tuple has
\* no group, and the invocations are in strictly ascending key order.
MergeStepsInOrder ==
    /\ \A n \in DOMAIN join_calls :
           LET kt == CallKey(join_calls[n])
           IN  /\ join_calls[n].a = GroupOfKey(rows_a, kt)
               /\ join_calls[n].b = GroupOfKey(rows_b, kt)
    /\ \A n \in DOMAIN join_calls, m \in DOMAIN join_calls :
           n < m => TupleLess(CallKey(join_calls[n]), CallKey(join_calls[m]))

\* Every group of both sides has been passed: one invocation per key tuple of
\* the union of both inputs.
AllGroupsPassed ==
    /\ { CallKey(join_calls[n]) : n \in DOMAIN join_calls } = AllKeyTuples
    /\ Len(join_calls) = Cardinality(AllKeyTuples)

\* C19 (as claimed): the joiner invocations are made per key tuple in
\* ascending order, a left and a right group together iff their key tuples
\* are equal and otherwise with an empty other side, and whenever the join has
\* ended every left and every right group has been passed to exactly one
\* invocation, so the invocations are as many as the distinct key tuples of
\* both inputs.
C19_MergeSteps ==
    /\ MergeStepsInOrder
    /\ JoinEnded => AllGroupsPassed

\* C19 (runs that return): the same statement for the joins that return
\* without an exception.
C19_MergeSteps_Completed ==
    /\ MergeStepsInOrder
    /\ JoinCompleted => AllGroupsPassed

\* A join that returned after a matched invocation and one with an empty
\* side.
C19_Witness ==
    /\ JoinCompleted
    /\ Len(join_calls) = 2
    /\ \E n \in DOMAIN join_calls : join_calls[n].a # NoGroup /\ join_calls[n].b # NoGroup
    /\ \E n \in DOMAIN join_calls : join_calls[n].a = NoGroup \/ join_calls[n].b = NoGroup

---------------------------------------------------------------------------
(* Claims about TermFrequency *)

\* The reduce runs TermFrequency.
IsTermFrequency == reduce.reducer.kind = "TermFrequency"

\* The values of the words column in the group of reducer call n.
WordsOfCall(n) == { reduce_rows[i][reduce.reducer.column] : i \in reduce_calls[n] }

\* The rows of the group of call n that hold the value.
Occurrences(n, value) ==
    { i \in reduce_calls[n] : reduce_rows[i][reduce.reducer.column] = value }

\* The position in the group's first-occurrence order of a value of the group.
OccurrenceRank(n, value) ==
    1 + Cardinality({ other \in WordsOfCall(n) :
            \E i \in Occurrences(n, other) : \A j \in Occurrences(n, value) : i < j })

RECURSIVE RowsBefore(_)
\* The output rows due to the calls before call n: one per distinct value.
RowsBefore(n) == IF n = 1 THEN 0 ELSE RowsBefore(n - 1) + Cardinality(WordsOfCall(n - 1))

\* The output row of call n for the value.
FrequencyRow(n, value) == reduce_out[RowsBefore(n) + OccurrenceRank(n, value)]

\* The occurrence count an output row of call n stands for: its frequency
\* times the number of rows of the group.
CountOf(n, row) == (row.tf.num * Cardinality(reduce_calls[n])) \div row.tf.den

\* C21: for each group TermFrequency emits exactly one row per distinct value
\* of the words column, in order of first occurrence, with the group's key
\* columns, the value, and frequency = occurrences / rows of the group; the
\* occurrence counts of a group's rows add up to the group's row count, and an
\* empty group emits nothing.
C21_TermFrequency ==
    IsTermFrequency =>
        /\ Len(reduce_out) = RowsBefore(Len(reduce_calls) + 1)
        /\ \A n \in DOMAIN reduce_calls :
               /\ \A value \in WordsOfCall(n) :
                      LET row == FrequencyRow(n, value)
                          first == reduce_rows[CHOOSE i \in reduce_calls[n] :
                                                   \A j \in reduce_calls[n] : i <= j]
                      IN  /\ DOMAIN row = Range(reduce.keys) \cup {reduce.reducer.column, "tf"}
                          /\ row[reduce.reducer.column] = value
                          /\ \A c \in Range(reduce.keys) : row[c] = first[c]
                          /\ row.tf.num * Cardinality(reduce_calls[n]) =
                                 Cardinality(Occurrences(n, value)) * row.tf.den
               /\ SumOver(WordsOfCall(n), [ value \in WordsOfCall(n) |->
                                               CountOf(n, FrequencyRow(n, value)) ])
                      = Cardinality(reduce_calls[n])
        /\ (reduce_pc = "done" /\ reduce_rows = <<>>) => reduce_out = <<>>

\* C21 witness: a group of three rows in which the second word to occur occurs
\* twice, so its row comes second with the frequency 2/3.
C21_Witness ==
    /\ IsTermFrequency
    /\ reduce_pc = "done"
    /\ reduce.keys = <<"a">>
    /\ \E n \in DOMAIN reduce_calls :
           /\ Cardinality(reduce_calls[n]) = 3
           /\ \E value \in WordsOfCall(n) :
                  /\ OccurrenceRank(n, value) = 2
                  /\ Cardinality(Occurrences(n, value)) = 2
                  /\ FrequencyRow(n, value).tf = [num |-> 2, den |-> 3]

---------------------------------------------------------------------------
(* Claims about Map with Divide *)

\* The positions of the source rows whose denominator is 0.
ZeroDenominators == { i \in DOMAIN div_orig : div_orig[i][div_op.denominator] = 0 }

\* Output row k holds the quotient of source row k in the result column.
QuotientEmitted(k) ==
    LET q == div_out[k][div_op.result]
    IN  /\ q.den > 0
        /\ q.num * div_orig[k][div_op.denominator] = div_orig[k][div_op.nominator] * q.den

\* C22: Map with Divide fails at the first row whose denominator is 0, at the
\* moment that row is pulled and not before; it emits no row for it and
\* leaves it as it was, without a result column written; the rows before it
\* have been emitted with result = nominator / denominator; no row behind it
\* is pulled, and a run fails for no other reason.
C22_DivideGuard ==
    /\ \A i \in ZeroDenominators : div_pos >= i =>
           /\ div_pc = "error"
           /\ div_error # ""
           /\ div_pos = i
           /\ Len(div_out) = i - 1
           /\ div_rows[i] = div_orig[i]
    /\ div_pc = "error" => div_pos \in ZeroDenominators
    /\ div_pc \in {"run", "done"} => Len(div_out) = div_pos
    /\ \A k \in DOMAIN div_out : QuotientEmitted(k)
    /\ \A i \in DOMAIN div_rows : i > div_pos => div_rows[i] = div_orig[i]

\* C22 witness: the second of three rows has the denominator 0; the first was
\* emitted with the quotient 1/2 and the run failed on the second.
C22_Witness ==
    /\ div_pc = "error"
    /\ Len(div_orig) = 3
    /\ ZeroDenominators = {2}
    /\ div_pos = 2
    /\ Len(div_out) = 1
    /\ div_out[1][div_op.result] = [num |-> 1, den |-> 2]
    /\ div_rows[2] = div_orig[2]

---------------------------------------------------------------------------
(* Claims about the order of the join output *)

\* The join-key tuple of output row n.
OutKey(n) == KeyOf(join_out[n], join.keys)

\* The output positions at which a Reduce on the join keys starts a group.
OutGroupStarts == { n \in DOMAIN join_out : n = 1 \/ OutKey(n) # OutKey(n - 1) }

\* C23: at every moment the rows the join has emitted all carry the join-key
\* columns and their key tuples never decrease, so each key tuple occupies
\* one contiguous run of the output and a Reduce on the same keys, applied to
\* the output as it is, gets every key tuple in exactly one group.
C23_JoinOutputOrder ==
    /\ \A n \in DOMAIN join_out : Range(join.keys) \subseteq DOMAIN join_out[n]
    /\ \A n \in DOMAIN join_out, m \in DOMAIN join_out :
           n < m => ~TupleLess(OutKey(m), OutKey(n))
    /\ \A n \in OutGroupStarts, m \in OutGroupStarts : OutKey(n) = OutKey(m) => n = m

\* C23 witness: a join that returned rows of two key tuples, a combined row
\* and a row passed through from one side among them, the smaller key first.
C23_Witness ==
    /\ JoinCompleted
    /\ Cardinality(OutGroupStarts) = 2
    /\ Len(join_out) >= 3
    /\ \E n \in DOMAIN join_out : {"a", "b"} \subseteq DOMAIN join_out[n]
    /\ \E n \in DOMAIN join_out : ~({"a", "b"} \subseteq DOMAIN join_out[n])
    /\ TupleLess(OutKey(1), OutKey(Len(join_out)))

---------------------------------------------------------------------------
(* Claims about the join with an empty key list *)

\* The join was built with keys = [].
EmptyKeyJoin == join.keys = <<>>

\* All rows of a stream as one group of the key tuple ().
WholeInput(rows) == [key |-> <<>>, lo |-> 1, hi |-> Len(rows)]

\* What the claim says of a join with no key column: with both inputs
\* non-empty one joiner invocation on the two whole inputs, from which
\* InnerJoiner emits one combined row per pair of a left and a right row,
\* |left| x |right| rows in all; with an empty input nothing from InnerJoiner.
EmptyKeyJoinOutput ==
    /\ (rows_a # <<>> /\ rows_b # <<>>) =>
           /\ join_calls = << [a |-> WholeInput(rows_a), b |-> WholeInput(rows_b)] >>
           /\ join.joiner = "Inner" =>
                  /\ \A i \in DOMAIN rows_a, j \in DOMAIN rows_b :
                         Cardinality(PairRows(i, j)) = 1
                  /\ Len(join_out) = Len(rows_a) * Len(rows_b)
    /\ (join.joiner = "Inner" /\ (rows_a = <<>> \/ rows_b = <<>>)) => join_out = <<>>

\* C24 (as claimed): whenever a join with an empty key list has ended, it has
\* treated each non-empty input as one group of the key tuple () and invoked
\* the joiner once, InnerJoiner has emitted the full cross-product, and
\* InnerJoiner has emitted nothing when either input is empty.
C24_EmptyKeyJoin ==
    (JoinEnded /\ EmptyKeyJoin) => EmptyKeyJoinOutput

\* C24 (runs that return): the same statement for the joins that return
\* without an exception.
C24_EmptyKeyJoin_Completed ==
    (JoinCompleted /\ EmptyKeyJoin) => EmptyKeyJoinOutput

\* An inner join with no key column that returned the four rows of the
\* cross-product of two rows with two rows of different key values.
C24_Witness ==
    /\ JoinCompleted
    /\ EmptyKeyJoin
    /\ join.joiner = "Inner"
    /\ Len(rows_a) = 2 /\ Len(rows_b) = 2
    /\ rows_a[1].k # rows_a[2].k
    /\ Len(join_out) = 4
    /\ Len(join_calls) = 1

===========================================================================
